---- MODULE Spec2Model ----
(***************************************************************************)
(* Model of the trajectory-matching engine's vector indices:               *)
(*   HNSWIndex and IVFIndex of packages/search/src/vector/ivf.ts.          *)
(*                                                                         *)
(* Numbers.  The code works on IEEE doubles; the model works on exact      *)
(* rationals over small integer vectors.  A cosine c is carried as the     *)
(* fraction sign(c)*c^2 = num/den (an order-preserving image of c, so      *)
(* every comparison and every sort of the code is decided exactly); a      *)
(* centroid (a mean) is carried as the pair (component sums, count).       *)
(***************************************************************************)
EXTENDS Integers, Sequences, FiniteSets, TLC

(***************************************************************************)
(* Bounds of the model and configuration of the indices under check.       *)
(***************************************************************************)
MaxNodes == 4
MaxLevel == 1
M == 2
EfConstruction == 3
EfSearch == 3

\* vectors offered to HNSWIndex.insert: two dimensions, and one vector of
\* another dimension to reach the dimension-mismatch error
HVecs == {<<1, 0>>, <<0, 1>>, <<1>>}
\* query vectors and result sizes offered to HNSWIndex.search
HQueries == {<<2, 1>>}
HKs == {1, 2}

\* IVFIndex configuration and inputs
MaxIds == 3
NClusters == 2
NProbe == 1
MaxIter == 20
\* 1e-4, the convergence threshold of kMeans, as 1 / ConvergenceInv
ConvergenceInv == 10000

\* vectors offered to IVFIndex.add (one dimension: add does not compare
\* dimensions, and euclideanDistance on unequal lengths is outside the model)
IVecs == {<<1, 0>>, <<0, 1>>, <<1, 1>>}
\* maps offered to IVFIndex.build(vectors)
IBuildMaps == {<<>>,
               <<[id |-> 1, vector |-> <<1, 0>>], [id |-> 2, vector |-> <<0, 1>>]>>}
IQueries == {<<2, 1>>}
IKs == {1, 2}

\* InvertedIndex inputs.  A field value is a string, modelled as its
\* sequence of characters; field names are atoms, and span ids are opaque
\* keys named by numbers.
MaxAdds == 3
SpanIds == {1, 2}
\* action values offered to add
ActionValues == {<<"c", "r", "e", "a", "t", "e">>,
                 <<"D", "e", "l", "e", "t", "e", "_", "A", "l", "l">>}
\* calls offered to filterByAction.  Exact: a stored value, and a string
\* that differs from one in case.  Fuzzy: a string inside a stored value,
\* a string around one, a string one edit away from one, and a string
\* three edits away from a stored value of length ten.
ActionCalls ==
  {[action |-> <<"c", "r", "e", "a", "t", "e">>, fuzzy |-> FALSE],
   [action |-> <<"C", "R", "E", "A", "T">>, fuzzy |-> FALSE],
   [action |-> <<"C", "R", "E", "A", "T">>, fuzzy |-> TRUE],
   [action |-> <<"r", "e", "c", "r", "e", "a", "t", "e">>, fuzzy |-> TRUE],
   [action |-> <<"c", "r", "e", "x", "t", "e">>, fuzzy |-> TRUE],
   [action |-> <<"d", "e", "l", "e", "t", "e", "_", "x", "y", "z">>, fuzzy |-> TRUE]}
ActionQueries == {c.action : c \in ActionCalls}
TagValues == {<<"t", "1">>, <<"t", "2">>}
DomainValues == {<<"p", "r", "o", "d">>}
DomainQueries == {<<"p", "r", "o", "d">>}
\* seeds offered to the filters: null, the empty list, a one-id list and a
\* two-id list
Seeds == {[null |-> TRUE, ids |-> <<>>],
          [null |-> FALSE, ids |-> <<>>],
          [null |-> FALSE, ids |-> <<2>>],
          [null |-> FALSE, ids |-> <<2, 1>>]}
TagLists == {<<<<"t", "1">>, <<"t", "2">>>>,
             <<<<"t", "2">>, <<"t", "1">>>>}
\* filter records offered to findAll, as their Object.entries
FilterLists ==
  {<<>>,
   <<[field |-> "tag", value |-> <<"t", "1">>]>>,
   <<[field |-> "tag", value |-> <<"t", "1">>],
     [field |-> "domain", value |-> <<"p", "r", "o", "d">>]>>,
   <<[field |-> "domain", value |-> <<"p", "r", "o", "d">>],
     [field |-> "tag", value |-> <<"t", "1">>]>>}
\* the <<field, value>> pairs the calls of the model can name
Pairs == ({"action"} \X (ActionValues \cup ActionQueries))
           \cup ({"tag"} \X TagValues)
           \cup ({"domain"} \X (DomainQueries \cup {<<"d", "e", "v">>}))
\* the pairs add is called with
AddPairs == ({"action"} \X ActionValues)
              \cup ({"tag"} \X TagValues) \cup ({"domain"} \X DomainValues)

\* TrajectoryMatcher configuration: the defaults for minTopK, minScore and
\* defaultTopK; embeddingDim and minConfidence as a constructor sets them
\* (with the default minConfidence of 20 no evidence can score below it)
MinTopK == 3
MinScore == [num |-> 3, den |-> 10]
MinConfidence == 80
EmbeddingDim == 4
DefaultTopK == 10
DefaultMinQuality == 60
MaxSpans == 3
MaxStale == 1

MaxEvidence == 6
MaxSamples == 3
MaxCalibration == 3

TxtCreate == <<"c", "r", "e", "a", "t", "e">>
TxtDeleteAll == <<"D", "e", "l", "e", "t", "e", "_", "A", "l", "l">>
TxtDone == <<"d", "o", "n", "e">>
TxtProd == <<"p", "r", "o", "d">>
NoText == <<>>
NoQuality == 0 - 1

\* spans offered to addSpan (the id is chosen by the call): one with an
\* outcome, an environment and a high quality score; one of another action
\* with a low quality score; one with neither outcome nor quality
SpanInputs ==
  {[who |-> NoText, did |-> TxtCreate, this |-> NoText, if_ok |-> TxtDone,
    if_not |-> NoText, env |-> TxtProd, when |-> 1, quality |-> 85],
   [who |-> NoText, did |-> TxtDeleteAll, this |-> NoText, if_ok |-> TxtDone,
    if_not |-> NoText, env |-> NoText, when |-> 2, quality |-> 50],
   [who |-> NoText, did |-> TxtCreate, this |-> NoText, if_ok |-> NoText,
    if_not |-> NoText, env |-> TxtProd, when |-> 2, quality |-> NoQuality]}

NoRange == [has |-> FALSE, start |-> 0, end |-> 0]

\* calls offered to predict: the default plan; a plan below minTopK; a
\* plan with a time range and an action one edit away from a stored one;
\* an action no stored action matches; an empty action; a stored action
\* with neither a quality floor nor a time range
PredictInputs ==
  {[env |-> TxtProd, action |-> TxtCreate, hasPlan |-> FALSE,
    topK |-> 0, minQuality |-> 0, timeRange |-> NoRange],
   [env |-> TxtProd, action |-> TxtCreate, hasPlan |-> TRUE,
    topK |-> 1, minQuality |-> 60, timeRange |-> NoRange],
   [env |-> TxtProd, action |-> <<"c", "r", "e", "x", "t", "e">>, hasPlan |-> TRUE,
    topK |-> 3, minQuality |-> 0, timeRange |-> [has |-> TRUE, start |-> 2, end |-> 2]],
   [env |-> NoText, action |-> <<"d", "e", "l", "e", "t", "e", "_", "x", "y", "z">>,
    hasPlan |-> TRUE, topK |-> 3, minQuality |-> 60, timeRange |-> NoRange],
   [env |-> TxtProd, action |-> NoText, hasPlan |-> TRUE,
    topK |-> 3, minQuality |-> 0, timeRange |-> NoRange],
   [env |-> TxtProd, action |-> TxtCreate, hasPlan |-> TRUE,
    topK |-> 3, minQuality |-> 0, timeRange |-> NoRange]}

\* arguments offered to setIndices
NoIndices == [vector |-> FALSE, inverted |-> FALSE, temporal |-> FALSE, quality |-> FALSE]
IndexSets ==
  {NoIndices,
   [vector |-> TRUE, inverted |-> FALSE, temporal |-> FALSE, quality |-> FALSE],
   [vector |-> FALSE, inverted |-> TRUE, temporal |-> FALSE, quality |-> FALSE],
   [vector |-> TRUE, inverted |-> TRUE, temporal |-> TRUE, quality |-> TRUE]}

\* arguments offered to a setIndices that comes after an addSpan
LateIndexSets ==
  {[vector |-> TRUE, inverted |-> FALSE, temporal |-> FALSE, quality |-> FALSE]}

\* text embedded and inserted into the vector index by its owner, without a span
StaleTexts == {<<"c", "r", "e", "a", "t", "e", " ", "p", "r", "o", "d">>}

VARIABLES
  nodes,        \* HNSWIndex.nodes: insertion-ordered map, nodes[i].id = i
  entryPoint,   \* HNSWIndex.entryPoint: an id, 0 for null
  hnswErr,      \* how the last HNSWIndex.insert ended: "none" or the error raised
  hnswFailed,   \* history: TRUE once some HNSWIndex.insert has raised an error
  hnswRet,      \* the last HNSWIndex.search or stats call and what it returned
  vectors,      \* IVFIndex.vectors: insertion-ordered map, entries [id, vector]
  centroids,    \* IVFIndex.centroids: list of means [sum, cnt]
  clusters,     \* IVFIndex.clusters: postings, clusters[i + 1] is the list of key i
  built,        \* IVFIndex.built
  ivfRet,       \* the last IVFIndex call and what it returned
  indices,      \* InvertedIndex.indices: field -> (value -> span ids), both
                \* maps in insertion order, entries [key, val]
  added,        \* history: per <<field, value>> the span ids passed to add, in call order
  iiRet,        \* the last InvertedIndex query and what it returned
  spans,        \* TrajectoryMatcher.spans: insertion-ordered map id -> span
  attached,     \* which of vectorIndex, invertedIndex, temporalIndex, qualityIndex are set
  temporal,     \* the temporal index: entries [id, when]
  quality,      \* the quality index: entries [id, score]
  mErr,         \* how the last addSpan ended: "none" or the error raised
  completed,    \* the ids of the spans whose addSpan returned without error
  pred,         \* the last predict call and what it returned
  fnArgs,       \* the arguments of a call of a pure function
  fnRet         \* what the call returned, once it has

hnswVars == <<nodes, entryPoint, hnswErr, hnswFailed, hnswRet>>
ivfVars == <<vectors, centroids, clusters, built, ivfRet>>
iiVars == <<indices, added, iiRet>>
mVars == <<spans, attached, temporal, quality, mErr, completed, pred>>
fVars == <<fnArgs, fnRet>>
vars == <<nodes, entryPoint, hnswErr, hnswFailed, hnswRet,
          vectors, centroids, clusters, built, ivfRet,
          indices, added, iiRet,
          spans, attached, temporal, quality, mErr, completed, pred,
          fnArgs, fnRet>>

(***************************************************************************)
(* Arithmetic on vectors                                                   *)
(***************************************************************************)
RECURSIVE DotTo(_, _, _)
DotTo(a, b, n) == IF n = 0 THEN 0 ELSE a[n] * b[n] + DotTo(a, b, n - 1)

Dot(a, b) == DotTo(a, b, Len(a))

Sgn(x) == IF x > 0 THEN 1 ELSE IF x < 0 THEN -1 ELSE 0

\* cosineSimilarity for vectors of equal length, as sign(c)*c^2 = num/den;
\* a zero denominator gives similarity 0.  Callers raise the
\* 'Vector dimensions must match' error when the lengths differ.
cosineSimilarity(a, b) ==
  LET d == Dot(a, b)
      n == Dot(a, a) * Dot(b, b)
  IN IF n = 0 THEN [num |-> 0, den |-> 1]
     ELSE [num |-> Sgn(d) * d * d, den |-> n]

\* F(v) with v evaluated once: a value bound by a set is computed a single
\* time, where an operator argument is computed again at every use
With(v, F(_)) == CHOOSE r \in {F(x) : x \in {v}} : TRUE

\* fractions with positive denominators: x < y
RatLess(x, y) == x.num * y.den < y.num * x.den

\* distance(a, b) = 1 - cosineSimilarity(a, b), carried as the fraction
\* -sign(c)*c^2, which orders distances as the code's doubles do
distance(a, b) ==
  LET c == cosineSimilarity(a, b) IN [num |-> 0 - c.num, den |-> c.den]

DistLess(x, y) == RatLess(x, y)

\* entries.sort((a, b) => a.dist - b.dist) on entries carrying a dist field:
\* Array.prototype.sort is stable, equal distances keep their order
InsertByDist(sorted, e) ==
  LET after == {p \in 1..Len(sorted) : DistLess(e.dist, sorted[p].dist)}
      at == IF after = {} THEN Len(sorted) + 1
            ELSE CHOOSE p \in after : \A r \in after : p <= r
  IN SubSeq(sorted, 1, at - 1) \o <<e>> \o SubSeq(sorted, at, Len(sorted))

SortByDistUnsorted(entries) == entries

RECURSIVE SortByDist(_)
SortByDist(entries) ==
  IF Len(entries) <= 1 THEN entries
  ELSE With(SortByDist(SubSeq(entries, 1, Len(entries) - 1)),
            LAMBDA sorted : InsertByDist(sorted, entries[Len(entries)]))

\* Array.prototype.slice(0, k) for k >= 0
Slice(s, k) == SubSeq(s, 1, IF k < Len(s) THEN k ELSE Len(s))

(***************************************************************************)
(* HNSWIndex                                                               *)
(***************************************************************************)
\* node.connections[layer] || []
Conn(node, layer) ==
  IF layer + 1 <= Len(node.connections) THEN node.connections[layer + 1] ELSE <<>>

Ids(entries) == [i \in 1..Len(entries) |-> entries[i].id]

\* the inner loop of searchLayer over the neighbours of the current candidate
RECURSIVE searchLayerVisit(_, _, _, _, _, _)
searchLayerVisit(N, query, ef, nbs, i, st) ==
  IF i > Len(nbs) THEN st
  ELSE IF nbs[i] \in st.visited THEN searchLayerVisit(N, query, ef, nbs, i + 1, st)
  ELSE With(
    LET nb == nbs[i]
        vis == st.visited \cup {nb}
        e == [id |-> nb, dist |-> distance(query, N[nb].vector)]
    IN IF Len(st.results) < ef
          \/ DistLess(e.dist, st.results[Len(st.results)].dist)
       THEN LET r == SortByDist(Append(st.results, e))
            IN [candidates |-> SortByDist(Append(st.candidates, e)),
                results |-> IF Len(r) > ef THEN SubSeq(r, 1, Len(r) - 1) ELSE r,
                visited |-> vis]
       ELSE [st EXCEPT !.visited = vis],
    LAMBDA st1 : searchLayerVisit(N, query, ef, nbs, i + 1, st1))

\* the while loop of searchLayer
RECURSIVE searchLayerLoop(_, _, _, _, _)
searchLayerLoop(N, query, layer, ef, st) ==
  IF st.candidates = <<>> THEN st.results
  ELSE LET current == Head(st.candidates)
       IN IF Len(st.results) >= ef
             /\ DistLess(st.results[Len(st.results)].dist, current.dist)
          THEN st.results
          ELSE With(searchLayerVisit(N, query, ef, Conn(N[current.id], layer), 1,
                                     [st EXCEPT !.candidates = Tail(@)]),
                    LAMBDA st1 : searchLayerLoop(N, query, layer, ef, st1))

\* searchLayer(query, entryPoints, layer, ef): ids of the result list
searchLayer(N, query, entryPoints, layer, ef) ==
  With(SortByDist([i \in 1..Len(entryPoints) |->
                 [id |-> entryPoints[i],
                  dist |-> distance(query, N[entryPoints[i]].vector)]]),
       LAMBDA s : Ids(searchLayerLoop(N, query, layer, ef,
                    [candidates |-> s, results |-> s,
                     visited |-> {entryPoints[i] : i \in 1..Len(entryPoints)}])))

selectNeighbors(N, vector, candidates, Ml) ==
  IF Len(candidates) <= Ml THEN candidates
  ELSE Slice(Ids(SortByDist([i \in 1..Len(candidates) |->
                 [id |-> candidates[i],
                  dist |-> distance(vector, N[candidates[i]].vector)]])), Ml)

pruneConnectionsKeepAll(N, id, layer, Ml) == N[id].connections[layer + 1]

pruneConnections(N, id, layer, Ml) ==
  LET connections == N[id].connections[layer + 1]
  IN IF Len(connections) <= Ml THEN connections
     ELSE Slice(Ids(SortByDist([i \in 1..Len(connections) |->
                 [id |-> connections[i],
                  dist |-> distance(N[id].vector, N[connections[i]].vector)]])), Ml)

\* M for a layer: doubled at layer 0
LayerCap(lc) == IF lc = 0 THEN M * 2 ELSE M

\* the loop "for (const neighbor of neighbors)" of insert; S = [nodes, err].
\* neighborNode.connections[lc] is undefined when lc > neighborNode.level,
\* and the push on it raises a TypeError after node.connections[lc] was
\* already extended.
RECURSIVE connectNeighbors(_, _, _, _, _)
connectNeighbors(S, id, nbs, i, lc) ==
  IF i > Len(nbs) \/ S.err # "none" THEN S
  ELSE With(
    LET nb == nbs[i]
        N1 == [S.nodes EXCEPT ![id].connections[lc + 1] = Append(@, nb)]
    IN IF lc > N1[nb].level
       THEN [nodes |-> N1, err |-> "TypeError"]
       ELSE LET N2 == [N1 EXCEPT ![nb].connections[lc + 1] = Append(@, id)]
            IN [nodes |-> IF Len(N2[nb].connections[lc + 1]) > LayerCap(lc)
                          THEN [N2 EXCEPT ![nb].connections[lc + 1] =
                                  pruneConnections(N2, nb, lc, LayerCap(lc))]
                          ELSE N2,
                err |-> "none"],
    LAMBDA S1 : connectNeighbors(S1, id, nbs, i + 1, lc))

\* the loop "for (let lc = level; lc >= 0; lc--)" of insert
RECURSIVE insertLayers(_, _, _, _)
insertLayers(S, id, nearest, lc) ==
  IF lc < 0 \/ S.err # "none" THEN S
  ELSE With(searchLayer(S.nodes, S.nodes[id].vector, nearest, lc, EfConstruction),
         LAMBDA candidates :
           With(connectNeighbors(S, id,
                  selectNeighbors(S.nodes, S.nodes[id].vector, candidates, LayerCap(lc)),
                  1, lc),
                LAMBDA S1 : insertLayers(S1, id, candidates, lc - 1)))

\* the loop "for (let lc = entryNode.level; lc > level; lc--)" of insert
RECURSIVE insertDescend(_, _, _, _, _)
insertDescend(N, vector, nearest, lc, level) ==
  IF lc <= level THEN nearest
  ELSE With(searchLayer(N, vector, nearest, lc, 1),
            LAMBDA found : insertDescend(N, vector, found, lc - 1, level))

\* insert(id, vector) with the drawn level: the index after the call and the
\* error it raised.  The node is stored before anything can fail.
insert(N, ep, id, vector, level) ==
  LET node == [id |-> id, vector |-> vector, level |-> level,
               connections |-> [l \in 1..(level + 1) |-> <<>>]]
      N0 == Append(N, node)
  IN IF ep = 0 THEN [nodes |-> N0, entryPoint |-> id, err |-> "none"]
     ELSE IF Len(vector) # Len(N0[ep].vector)
     THEN [nodes |-> N0, entryPoint |-> ep, err |-> "DimensionMismatch"]
     ELSE With(insertLayers([nodes |-> N0, err |-> "none"], id,
                 insertDescend(N0, vector, <<ep>>, N0[ep].level, level), level),
            LAMBDA S :
              [nodes |-> S.nodes,
               entryPoint |-> IF S.err = "none" /\ level > N0[ep].level THEN id ELSE ep,
               err |-> S.err])

\* exactSearch(query, k) over all nodes, in map order
hnswExactSearch(N, query, k) ==
  Slice(Ids(SortByDist([i \in 1..Len(N) |->
          [id |-> N[i].id, dist |-> distance(query, N[i].vector)]])), k)

\* the loop "for (let lc = entryNode.level; lc > 0; lc--)" of search
RECURSIVE searchDescend(_, _, _, _)
searchDescend(N, query, nearest, lc) ==
  IF lc <= 0 THEN nearest
  ELSE With(searchLayer(N, query, nearest, lc, 1),
            LAMBDA found : searchDescend(N, query, found, lc - 1))

\* search with ef = efSearch
searchEfSearchOnly(N, ep, query, k) ==
  LET Result(ids) == [i \in 1..Len(ids) |->
                        [id |-> ids[i],
                         similarity |-> cosineSimilarity(query, N[ids[i]].vector)]]
  IN IF Len(N) = 0 THEN [err |-> "none", res |-> <<>>]
     ELSE IF Len(query) # Len(N[ep].vector)
     THEN [err |-> "DimensionMismatch", res |-> <<>>]
     ELSE IF Len(N) = 1
     THEN With(hnswExactSearch(N, query, k),
               LAMBDA ids : [err |-> "none", res |-> Result(ids)])
     ELSE LET nearest == searchDescend(N, query, <<ep>>, N[ep].level)
          IN With(Slice(searchLayer(N, query, nearest, 0, EfSearch), k),
                  LAMBDA ids : [err |-> "none", res |-> Result(ids)])

\* search(query, k): [err, res], res the returned results in order
search(N, ep, query, k) ==
  LET Result(ids) == [i \in 1..Len(ids) |->
                        [id |-> ids[i],
                         similarity |-> cosineSimilarity(query, N[ids[i]].vector)]]
  IN IF Len(N) = 0 THEN [err |-> "none", res |-> <<>>]
     ELSE IF Len(query) # Len(N[ep].vector)
     THEN [err |-> "DimensionMismatch", res |-> <<>>]
     ELSE IF Len(N) = 1
     THEN With(hnswExactSearch(N, query, k),
               LAMBDA ids : [err |-> "none", res |-> Result(ids)])
     ELSE LET nearest == searchDescend(N, query, <<ep>>, N[ep].level)
              ef == IF EfSearch > k THEN EfSearch ELSE k
          IN With(Slice(searchLayer(N, query, nearest, 0, ef), k),
                  LAMBDA ids : [err |-> "none", res |-> Result(ids)])

NoRet == [op |-> "none"]

HNSWInit ==
  /\ nodes = <<>>
  /\ entryPoint = 0
  /\ hnswErr = "none"
  /\ hnswFailed = FALSE
  /\ hnswRet = NoRet

HNSWInsert ==
  /\ Len(nodes) < MaxNodes
  /\ \E vector \in HVecs, level \in 0..MaxLevel :
       LET r == insert(nodes, entryPoint, Len(nodes) + 1, vector, level)
       IN /\ nodes' = r.nodes
          /\ entryPoint' = r.entryPoint
          /\ hnswErr' = r.err
          /\ hnswFailed' = (hnswFailed \/ r.err # "none")
  /\ hnswRet' = NoRet
  /\ UNCHANGED ivfVars
  /\ UNCHANGED iiVars
  /\ UNCHANGED mVars
  /\ UNCHANGED fVars

HNSWSearch ==
  /\ \E query \in HQueries, k \in HKs :
       LET r == search(nodes, entryPoint, query, k)
       IN hnswRet' = [op |-> "search", query |-> query, k |-> k,
                      err |-> r.err, res |-> r.res]
  /\ UNCHANGED <<nodes, entryPoint, hnswErr, hnswFailed>>
  /\ UNCHANGED ivfVars
  /\ UNCHANGED iiVars
  /\ UNCHANGED mVars
  /\ UNCHANGED fVars

(***************************************************************************)
(* IVFIndex.  Every call is awaited by its caller (the single-writer use   *)
(* the index is specified for), so a call is one step: the only await of   *)
(* build is on kMeans, which itself never suspends.                        *)
(***************************************************************************)
\* Map.prototype.get / has / set on an insertion-ordered map of [id, vector]
MapHas(m, id) == \E i \in 1..Len(m) : m[i].id = id

MapGet(m, id) == m[CHOOSE i \in 1..Len(m) : m[i].id = id].vector

MapSet(m, id, vector) ==
  IF MapHas(m, id)
  THEN [i \in 1..Len(m) |-> IF m[i].id = id THEN [id |-> id, vector |-> vector] ELSE m[i]]
  ELSE Append(m, [id |-> id, vector |-> vector])

\* a stored vector seen as a centroid
AsCentroid(v) == [sum |-> v, cnt |-> 1]

RECURSIVE SqDiffTo(_, _, _)
SqDiffTo(a, b, n) ==
  IF n = 0 THEN 0
  ELSE (a.sum[n] * b.cnt - b.sum[n] * a.cnt) * (a.sum[n] * b.cnt - b.sum[n] * a.cnt)
       + SqDiffTo(a, b, n - 1)

\* euclideanDistance(a, b) between means, carried as its square num/den
euclideanDistance(a, b) ==
  [num |-> SqDiffTo(a, b, Len(a.sum)), den |-> (a.cnt * b.cnt) * (a.cnt * b.cnt)]

\* the loop of findNearestCentroidFrom over the distances ds: the first
\* index (from 1) at the least distance, index 1 for an empty list
RECURSIVE nearestLoop(_, _, _)
nearestLoop(ds, i, nearest) ==
  IF i > Len(ds) THEN nearest
  ELSE nearestLoop(ds, i + 1,
         IF nearest = 0 \/ RatLess(ds[i], ds[nearest]) THEN i ELSE nearest)

findNearestCentroidFrom(vector, cs) ==
  With(nearestLoop([i \in 1..Len(cs) |-> euclideanDistance(AsCentroid(vector), cs[i])],
                   1, 0),
       LAMBDA nearest : IF nearest = 0 THEN 1 ELSE nearest)

RECURSIVE VecSum(_, _)
VecSum(vs, n) ==
  IF n = 1 THEN vs[1]
  ELSE LET r == VecSum(vs, n - 1) IN [i \in 1..Len(vs[1]) |-> r[i] + vs[n][i]]

\* computeCentroid of a non-empty list of vectors
computeCentroid(vs) == [sum |-> VecSum(vs, Len(vs)), cnt |-> Len(vs)]

\* Array.prototype.filter: the elements of s at the positions satisfying Keep
RECURSIVE FilterTo(_, _, _)
FilterTo(s, keep, n) ==
  IF n = 0 THEN <<>>
  ELSE IF keep[n] THEN Append(FilterTo(s, keep, n - 1), s[n])
       ELSE FilterTo(s, keep, n - 1)

\* maxCentroidChange(old, new) < 1e-4, on the squared distances:
\* num/den < 1/ConvergenceInv^2
Converged(old, new) ==
  \A i \in 1..Len(old) :
    LET d == euclideanDistance(old[i], new[i])
        limit == (d.den + ConvergenceInv * ConvergenceInv - 1)
                   \div (ConvergenceInv * ConvergenceInv)
    IN d.num < limit

\* one Lloyd iteration of kMeans: assign, then recompute the centroids
kMeansStep(vs, k, cs) ==
  With([j \in 1..Len(vs) |-> findNearestCentroidFrom(vs[j], cs)],
       LAMBDA assignments :
         [i \in 1..k |->
            With(FilterTo(vs, [j \in 1..Len(vs) |-> assignments[j] = i], Len(vs)),
                 LAMBDA clusterVectors :
                   IF clusterVectors = <<>> THEN cs[i]
                   ELSE computeCentroid(clusterVectors))])

\* the Lloyd iterations of kMeans from the centroids cs, at iteration iter
RECURSIVE kMeansLoop(_, _, _, _)
kMeansLoop(vs, k, cs, iter) ==
  IF iter >= MaxIter THEN cs
  ELSE With(kMeansStep(vs, k, cs),
            LAMBDA newCentroids :
              IF Converged(cs, newCentroids) THEN newCentroids
              ELSE kMeansLoop(vs, k, newCentroids, iter + 1))

\* squared distance of v to the nearest of the chosen centroids
NearestSq(v, chosen) ==
  LET ds == {euclideanDistance(AsCentroid(v), AsCentroid(chosen[c])).num :
               c \in 1..Len(chosen)}
  IN CHOOSE d \in ds : \A e \in ds : d <= e

\* initializeCentroidsKMeansPlusPlus: the lists of k vectors the two random
\* draws can produce.  The first is any vector.  Each further one is the
\* first j whose running sum of D^2 weights reaches randVal: vector 0 when
\* the draw (or the total weight) is 0, and any vector of positive weight.
RECURSIVE kMeansPlusPlus(_, _, _)
kMeansPlusPlus(vs, k, chosen) ==
  IF Len(chosen) >= k THEN {chosen}
  ELSE LET picks == IF chosen = <<>> THEN 1..Len(vs)
                    ELSE {1} \cup {j \in 1..Len(vs) : NearestSq(vs[j], chosen) > 0}
       IN UNION {kMeansPlusPlus(vs, k, Append(chosen, vs[j])) : j \in picks}

\* kMeans(vectors, k): the centroid lists it can return
kMeans(vs, k) ==
  IF k >= Len(vs) THEN {[i \in 1..Len(vs) |-> AsCentroid(vs[i])]}
  ELSE {kMeansLoop(vs, k, [i \in 1..k |-> AsCentroid(init[i])], 0) :
          init \in kMeansPlusPlus(vs, k, <<>>)}

\* the loop of build that pushes every id on the posting of its nearest centroid
RECURSIVE assignClusters(_, _, _, _)
assignClusters(m, cs, cl, n) ==
  IF n = 0 THEN cl
  ELSE [assignClusters(m, cs, cl, n - 1)
          EXCEPT ![findNearestCentroidFrom(m[n].vector, cs)] = Append(@, m[n].id)]

Min(a, b) == IF a < b THEN a ELSE b

findNearestCentroidsUnsorted(query, cs, nProbe) ==
  Ids(Slice([i \in 1..Len(cs) |->
        [id |-> i, dist |-> euclideanDistance(AsCentroid(query), cs[i])]], nProbe))

\* findNearestCentroids(query, nProbe): centroid indices by distance
findNearestCentroids(query, cs, nProbe) ==
  Ids(Slice(SortByDist([i \in 1..Len(cs) |->
        [id |-> i, dist |-> euclideanDistance(AsCentroid(query), cs[i])]]), nProbe))

\* candidates.sort(by distance).slice(0, k) on entries [id, vector]
RankByCosine(query, entries, k) ==
  LET sorted == Slice(SortByDist([i \in 1..Len(entries) |->
                  [id |-> entries[i].id,
                   dist |-> distance(query, entries[i].vector),
                   similarity |-> cosineSimilarity(query, entries[i].vector)]]), k)
  IN [i \in 1..Len(sorted) |-> [id |-> sorted[i].id, similarity |-> sorted[i].similarity]]

\* exactSearch(query, k) of IVFIndex
ivfExactSearch(m, query, k) == RankByCosine(query, m, k)

RECURSIVE SumLen(_, _)
SumLen(ss, n) == IF n = 0 THEN 0 ELSE Len(ss[n]) + SumLen(ss, n - 1)

RECURSIVE Concat(_, _)
Concat(ss, n) == IF n = 0 THEN <<>> ELSE Concat(ss, n - 1) \o ss[n]

\* a probing branch that scans the posting of the nearest centroid only
ivfProbeNearestOnly(m, cs, cl, query, k, nProbe) ==
  LET nearestCentroids == findNearestCentroids(query, cs, 1)
      ids == Concat([p \in 1..Len(nearestCentroids) |->
               IF nearestCentroids[p] <= Len(cl) THEN cl[nearestCentroids[p]]
               ELSE <<>>], Len(nearestCentroids))
  IN [err |-> "none",
      res |-> RankByCosine(query,
                [p \in 1..Len(ids) |->
                   [id |-> ids[p], vector |-> MapGet(m, ids[p])]], k)]

\* the probing branch of search with config.nProbe = nProbe: scan the
\* postings of the nProbe nearest centroids
ivfProbeWith(m, cs, cl, query, k, nProbe) ==
  LET nearestCentroids == findNearestCentroids(query, cs, nProbe)
      ids == Concat([p \in 1..Len(nearestCentroids) |->
               IF nearestCentroids[p] <= Len(cl) THEN cl[nearestCentroids[p]]
               ELSE <<>>], Len(nearestCentroids))
  IN IF \E p \in 1..Len(ids) : ~MapHas(m, ids[p])
     THEN [err |-> "TypeError", res |-> <<>>]
     ELSE [err |-> "none",
           res |-> RankByCosine(query,
                     [p \in 1..Len(ids) |->
                        [id |-> ids[p], vector |-> MapGet(m, ids[p])]], k)]

\* the probing branch of search under the configuration of the model
ivfProbe(m, cs, cl, query, k) == ivfProbeWith(m, cs, cl, query, k, NProbe)

ivfSearchIgnoringBuilt(m, cs, cl, isBuilt, query, k) ==
  IF Len(m) = 0 THEN [err |-> "none", res |-> <<>>]
  ELSE IF Len(cs) = 0
  THEN [err |-> "none", res |-> ivfExactSearch(m, query, k)]
  ELSE ivfProbe(m, cs, cl, query, k)

\* search(query, k) of IVFIndex: [err, res]
ivfSearch(m, cs, cl, isBuilt, query, k) ==
  IF Len(m) = 0 THEN [err |-> "none", res |-> <<>>]
  ELSE IF ~isBuilt \/ Len(cs) = 0
  THEN [err |-> "none", res |-> ivfExactSearch(m, query, k)]
  ELSE ivfProbe(m, cs, cl, query, k)

\* stats() of HNSWIndex: layers is the level of the entry node plus one, and
\* the average degree is carried as the total count of connections
stats(N, ep) ==
  IF Len(N) = 0 THEN [nodes |-> 0, layers |-> 0, totalConnections |-> 0]
  ELSE [nodes |-> Len(N),
        layers |-> (IF ep # 0 THEN N[ep].level ELSE 0) + 1,
        totalConnections |->
          Len(Concat([i \in 1..Len(N) |->
                        Concat(N[i].connections, Len(N[i].connections))], Len(N)))]

HNSWStats ==
  /\ LET r == stats(nodes, entryPoint)
     IN hnswRet' = [op |-> "stats", nodes |-> r.nodes, layers |-> r.layers,
                    totalConnections |-> r.totalConnections]
  /\ UNCHANGED <<nodes, entryPoint, hnswErr, hnswFailed>>
  /\ UNCHANGED ivfVars
  /\ UNCHANGED iiVars
  /\ UNCHANGED mVars
  /\ UNCHANGED fVars

IVFInit ==
  /\ vectors = <<>>
  /\ centroids = <<>>
  /\ clusters = <<>>
  /\ built = FALSE
  /\ ivfRet = NoRet

\* add(id, vector).  Ids are opaque keys: a key not yet in the map is named
\* by the next number, a key of the map by its own.
IVFAdd ==
  /\ \E id \in 1..Min(Len(vectors) + 1, MaxIds), vector \in IVecs :
       vectors' = MapSet(vectors, id, vector)
  /\ built' = FALSE
  /\ ivfRet' = NoRet
  /\ UNCHANGED <<centroids, clusters>>
  /\ UNCHANGED hnswVars
  /\ UNCHANGED iiVars
  /\ UNCHANGED mVars
  /\ UNCHANGED fVars

\* k of build: Math.min(this.config.nClusters, vectorArray.length)
clusterCountNoMin(n) == NClusters

clusterCount(n) == Min(NClusters, n)

\* the body of build once this.vectors is m
BuildFrom(m) ==
  /\ vectors' = m
  /\ IF Len(m) = 0
     THEN UNCHANGED <<centroids, clusters, built>>
     ELSE LET k == clusterCount(Len(m))
          IN \E cs \in kMeans([i \in 1..Len(m) |-> m[i].vector], k) :
               /\ centroids' = cs
               /\ clusters' = assignClusters(m, cs, [i \in 1..k |-> <<>>], Len(m))
               /\ built' = TRUE

\* build()
IVFBuild ==
  /\ BuildFrom(vectors)
  /\ ivfRet' = NoRet
  /\ UNCHANGED hnswVars
  /\ UNCHANGED iiVars
  /\ UNCHANGED mVars
  /\ UNCHANGED fVars

\* build(vectors)
IVFBuildWith ==
  /\ \E m \in IBuildMaps : BuildFrom(m)
  /\ ivfRet' = NoRet
  /\ UNCHANGED hnswVars
  /\ UNCHANGED iiVars
  /\ UNCHANGED mVars
  /\ UNCHANGED fVars

\* search(query, k)
IVFSearch ==
  /\ \E query \in IQueries, k \in IKs :
       LET r == ivfSearch(vectors, centroids, clusters, built, query, k)
       IN ivfRet' = [op |-> "search", query |-> query, k |-> k,
                     err |-> r.err, res |-> r.res]
  /\ UNCHANGED <<vectors, centroids, clusters, built>>
  /\ UNCHANGED hnswVars
  /\ UNCHANGED iiVars
  /\ UNCHANGED mVars
  /\ UNCHANGED fVars

(***************************************************************************)
(* InvertedIndex (unnamed/part_003).                                       *)
(***************************************************************************)
\* Map.has / Map.get / Map.set on an insertion-ordered map of [key, val]
KeyHas(mp, k) == \E i \in 1..Len(mp) : mp[i].key = k

KeyGet(mp, k) == mp[CHOOSE i \in 1..Len(mp) : mp[i].key = k].val

KeySet(mp, k, v) ==
  IF KeyHas(mp, k)
  THEN [i \in 1..Len(mp) |-> IF mp[i].key = k THEN [key |-> k, val |-> v] ELSE mp[i]]
  ELSE Append(mp, [key |-> k, val |-> v])

\* Array.from(new Set(ids)): the first occurrence of every id, in order
RECURSIVE DedupTo(_, _)
DedupTo(ids, n) ==
  IF n = 0 THEN <<>>
  ELSE With(DedupTo(ids, n - 1), LAMBDA d :
         IF \E i \in 1..Len(d) : d[i] = ids[n] THEN d ELSE Append(d, ids[n]))

\* the list as it is, duplicates kept
DedupNone(ids) == ids

Dedup(ids) == DedupTo(ids, Len(ids))

Elems(ids) == {ids[i] : i \in 1..Len(ids)}

\* add(spanId, field, value) without the push of an id the list already holds
addOnce(idx, spanId, field, value) ==
  LET withField == IF KeyHas(idx, field) THEN idx ELSE KeySet(idx, field, <<>>)
      fieldIndex == KeyGet(withField, field)
      withValue == IF KeyHas(fieldIndex, value) THEN fieldIndex
                   ELSE KeySet(fieldIndex, value, <<>>)
      list == KeyGet(withValue, value)
  IN KeySet(withField, field,
            KeySet(withValue, value,
                   IF spanId \in Elems(list) THEN list ELSE Append(list, spanId)))

\* add(spanId, field, value): the new indices
add(idx, spanId, field, value) ==
  LET withField == IF KeyHas(idx, field) THEN idx ELSE KeySet(idx, field, <<>>)
      fieldIndex == KeyGet(withField, field)
      withValue == IF KeyHas(fieldIndex, value) THEN fieldIndex
                   ELSE KeySet(fieldIndex, value, <<>>)
  IN KeySet(withField, field,
            KeySet(withValue, value, Append(KeyGet(withValue, value), spanId)))

\* find(field, value)
find(idx, field, value) ==
  IF KeyHas(idx, field) /\ KeyHas(KeyGet(idx, field), value)
  THEN KeyGet(KeyGet(idx, field), value)
  ELSE <<>>

getCount(idx, field, value) == Len(find(idx, field, value))

\* String.prototype.toLowerCase on the characters of the inputs
LowerOf == [C |-> "c", R |-> "r", E |-> "e", A |-> "a", T |-> "t", D |-> "d"]

toLowerCase(str) ==
  [i \in 1..Len(str) |-> IF str[i] \in DOMAIN LowerOf THEN LowerOf[str[i]] ELSE str[i]]

\* String.prototype.includes
includes(str, sub) ==
  \E start \in 0..(Len(str) - Len(sub)) : SubSeq(str, start + 1, start + Len(sub)) = sub

Min3(x, y, z) == Min(x, Min(y, z))

\* one row of the matrix of levenshteinDistance: row i for character bch of
\* b, from the row above; position j + 1 of a row is column j
RECURSIVE levRow(_, _, _, _, _)
levRow(a, bch, prev, row, j) ==
  IF j > Len(a) THEN row
  ELSE With(IF bch = a[j] THEN prev[j]
            ELSE Min3(prev[j] + 1, row[j] + 1, prev[j + 1] + 1),
            LAMBDA cell :
              With(Append(row, cell), LAMBDA r : levRow(a, bch, prev, r, j + 1)))

RECURSIVE levRows(_, _, _, _)
levRows(a, b, prev, i) ==
  IF i > Len(b) THEN prev
  ELSE With(levRow(a, b[i], prev, <<i>>, 1), LAMBDA row : levRows(a, b, row, i + 1))

\* levenshteinDistance(a, b)
levenshteinDistance(a, b) == levRows(a, b, [j \in 1..Len(a) + 1 |-> j - 1], 1)[Len(a) + 1]

\* levenshteinSimilarity(a, b), as a fraction
levenshteinSimilarity(a, b) ==
  LET maxLen == IF Len(a) > Len(b) THEN Len(a) ELSE Len(b)
  IN IF maxLen = 0 THEN [num |-> 1, den |-> 1]
     ELSE [num |-> maxLen - levenshteinDistance(a, b), den |-> maxLen]

\* 0.7, the similarity a fuzzy match has to exceed
FuzzyThreshold == [num |-> 7, den |-> 10]

\* the condition under which fuzzy filterByAction takes a stored action
fuzzyMatchesNonStrict(lowerAction, lowerStored) ==
  \/ includes(lowerStored, lowerAction)
  \/ includes(lowerAction, lowerStored)
  \/ ~RatLess(levenshteinSimilarity(lowerAction, lowerStored), FuzzyThreshold)

fuzzyMatches(lowerAction, lowerStored) ==
  \/ includes(lowerStored, lowerAction)
  \/ includes(lowerAction, lowerStored)
  \/ RatLess(FuzzyThreshold, levenshteinSimilarity(lowerAction, lowerStored))

\* fuzzyMatches tabulated over the lowercased action strings of the model
fuzzyMatchOf ==
  LET strs == {toLowerCase(str) : str \in ActionValues \cup ActionQueries}
  IN [lowerAction \in strs, lowerStored \in strs |-> fuzzyMatches(lowerAction, lowerStored)]

\* the matches as they are, whatever the seed
intersectSeedNone(matches, seed) == matches

\* matches.filter(id => idSet.has(id)) when ids is not null
intersectSeed(matches, seed) ==
  IF seed.null THEN matches
  ELSE SelectSeq(matches, LAMBDA id : id \in Elems(seed.ids))

\* filterByAction(ids, action, fuzzy)
filterByAction(idx, seed, action, fuzzy) ==
  IF ~fuzzy THEN intersectSeed(find(idx, "action", action), seed)
  ELSE IF ~KeyHas(idx, "action") THEN <<>>
  ELSE LET actionIndex == KeyGet(idx, "action")
           lowerAction == toLowerCase(action)
           taken == [i \in 1..Len(actionIndex) |->
                       IF fuzzyMatchOf[lowerAction, toLowerCase(actionIndex[i].key)]
                       THEN actionIndex[i].val ELSE <<>>]
       IN intersectSeed(Dedup(Concat(taken, Len(taken))), seed)

\* filterByTags(ids, tags)
filterByTags(idx, seed, tags) ==
  LET found == [i \in 1..Len(tags) |-> find(idx, "tag", tags[i])]
  IN intersectSeed(Dedup(Concat(found, Len(found))), seed)

\* filterByDomain(ids, domain)
filterByDomain(idx, seed, domain) == intersectSeed(find(idx, "domain", domain), seed)

\* the loop of findAll over the first n entries of filters; results is
\* [null, ids]
RECURSIVE findAllLoop(_, _, _)
findAllLoop(idx, filters, n) ==
  IF n = 0 THEN [null |-> TRUE, ids |-> <<>>]
  ELSE With(findAllLoop(idx, filters, n - 1), LAMBDA results :
         LET matches == Dedup(find(idx, filters[n].field, filters[n].value))
         IN IF results.null THEN [null |-> FALSE, ids |-> matches]
            ELSE [null |-> FALSE,
                  ids |-> SelectSeq(results.ids, LAMBDA id : id \in Elems(matches))])

\* findAll(filters)
findAll(idx, filters) == findAllLoop(idx, filters, Len(filters)).ids

\* number of add calls so far
RECURSIVE CountIds(_, _)
CountIds(mp, n) ==
  IF n = 0 THEN 0
  ELSE CountIds(mp, n - 1) + SumLen([i \in 1..Len(mp[n].val) |-> mp[n].val[i].val],
                                    Len(mp[n].val))

IIInit ==
  /\ indices = <<>>
  /\ added = [pr \in Pairs |-> <<>>]
  /\ iiRet = NoRet

\* add(spanId, field, value)
IIAdd ==
  /\ CountIds(indices, Len(indices)) < MaxAdds
  /\ \E spanId \in SpanIds, pr \in AddPairs :
       /\ indices' = add(indices, spanId, pr[1], pr[2])
       /\ added' = [added EXCEPT ![pr] = Append(@, spanId)]
  /\ iiRet' = NoRet
  /\ UNCHANGED <<hnswVars, ivfVars, mVars, fVars>>

\* filterByAction(ids, action, fuzzy)
IIFilterByAction ==
  /\ \E seed \in Seeds, call \in ActionCalls :
       iiRet' = [op |-> "filterByAction", seed |-> seed, action |-> call.action,
                 fuzzy |-> call.fuzzy,
                 res |-> filterByAction(indices, seed, call.action, call.fuzzy)]
  /\ UNCHANGED <<indices, added, hnswVars, ivfVars, mVars, fVars>>

\* filterByTags(ids, tags)
IIFilterByTags ==
  /\ \E seed \in Seeds, tags \in TagLists :
       iiRet' = [op |-> "filterByTags", seed |-> seed, tags |-> tags,
                 res |-> filterByTags(indices, seed, tags)]
  /\ UNCHANGED <<indices, added, hnswVars, ivfVars, mVars, fVars>>

\* filterByDomain(ids, domain)
IIFilterByDomain ==
  /\ \E seed \in Seeds, domain \in DomainQueries :
       iiRet' = [op |-> "filterByDomain", seed |-> seed, domain |-> domain,
                 res |-> filterByDomain(indices, seed, domain)]
  /\ UNCHANGED <<indices, added, hnswVars, ivfVars, mVars, fVars>>

\* findAll(filters)
IIFindAll ==
  /\ \E filters \in FilterLists :
       iiRet' = [op |-> "findAll", filters |-> filters,
                 res |-> findAll(indices, filters)]
  /\ UNCHANGED <<indices, added, hnswVars, ivfVars, mVars, fVars>>

(***************************************************************************)
(* Embedder (packages/utils/src/embedding.ts).  A string is its sequence   *)
(* of characters.  A 32-bit word is the sequence of its four bytes, least  *)
(* significant first.                                                      *)
(***************************************************************************)
Letters == <<"a", "b", "c", "d", "e", "f", "g", "h", "i", "j", "k", "l", "m",
             "n", "o", "p", "q", "r", "s", "t", "u", "v", "w", "x", "y", "z">>

\* String.prototype.charCodeAt on the lowercased characters of the inputs
charCodeAt(c) ==
  CASE c = "_" -> 95
    [] c = " " -> 32
    [] c = "?" -> 63
    [] OTHER -> 96 + (CHOOSE i \in 1..26 : Letters[i] = c)

\* \w and \s of the regular expressions of tokenize
IsWordChar(c) == c = "_" \/ \E i \in 1..26 : Letters[i] = c

IsSpaceChar(c) == c = " "

RECURSIVE XorBits(_, _, _)
XorBits(a, b, n) ==
  IF n = 0 THEN 0 ELSE ((a + b) % 2) + 2 * XorBits(a \div 2, b \div 2, n - 1)

\* x ^ y on words
WordXor(x, y) == [i \in 1..4 |-> XorBits(x[i], y[i], 8)]

\* the word of a number below 2^16
WordOf(n) == <<n % 256, (n \div 256) % 256, 0, 0>>

\* Math.imul(x, y): the low 32 bits of the product
imul(x, y) ==
  LET p1 == x[1] * y[1]
      p2 == x[1] * y[2] + x[2] * y[1] + (p1 \div 256)
      p3 == x[1] * y[3] + x[2] * y[2] + x[3] * y[1] + (p2 \div 256)
      p4 == x[1] * y[4] + x[2] * y[3] + x[3] * y[2] + x[4] * y[1] + (p3 \div 256)
  IN <<p1 % 256, p2 % 256, p3 % 256, p4 % 256>>

\* x >>> 16 and x >>> 13
Shr16(x) == <<x[3], x[4], 0, 0>>

Shr13(x) ==
  <<(x[2] \div 32) + (x[3] % 32) * 8,
    (x[3] \div 32) + (x[4] % 32) * 8,
    x[4] \div 32,
    0>>

\* the constants of simpleHash
HashInit1 == <<239, 190, 173, 222>>
HashInit2 == <<87, 206, 198, 65>>
HashMul1 == <<177, 121, 55, 158>>
HashMul2 == <<149, 100, 53, 95>>
HashMix1 == <<107, 202, 235, 133>>
HashMix2 == <<53, 174, 178, 194>>

\* the loop of simpleHash over the first n characters: [h1, h2]
RECURSIVE hashLoop(_, _, _)
hashLoop(str, seed, n) ==
  IF n = 0 THEN [h1 |-> WordXor(HashInit1, WordOf(seed)),
                 h2 |-> WordXor(HashInit2, WordOf(seed))]
  ELSE With(hashLoop(str, seed, n - 1), LAMBDA h :
         LET ch == WordOf(charCodeAt(str[n]))
         IN [h1 |-> imul(WordXor(h.h1, ch), HashMul1),
             h2 |-> imul(WordXor(h.h2, ch), HashMul2)])

\* simpleHash(str, seed): [h1, h2] with value 4294967296 * (2097151 & h2) + h1
simpleHash(str, seed) ==
  With(hashLoop(str, seed, Len(str)), LAMBDA h :
    With(WordXor(imul(WordXor(h.h1, Shr16(h.h1)), HashMix1),
                 imul(WordXor(h.h2, Shr13(h.h2)), HashMix2)), LAMBDA h1 :
      [h1 |-> h1,
       h2 |-> WordXor(imul(WordXor(h.h2, Shr16(h.h2)), HashMix1),
                      imul(WordXor(h1, Shr13(h1)), HashMix2))]))

\* simpleHash(...) % d
HashMod(h, d) ==
  LET b7 == (h.h2[3] % 32) % d
      b6 == (b7 * 256 + h.h2[2]) % d
      b5 == (b6 * 256 + h.h2[1]) % d
      b4 == (b5 * 256 + h.h1[4]) % d
      b3 == (b4 * 256 + h.h1[3]) % d
      b2 == (b3 * 256 + h.h1[2]) % d
  IN (b2 * 256 + h.h1[1]) % d

\* text.replace(/[^\w\s]/g, ' ')
replaceNonWord(str) ==
  [i \in 1..Len(str) |-> IF IsWordChar(str[i]) \/ IsSpaceChar(str[i]) THEN str[i] ELSE " "]

\* split(/\s+/): [tokens, cur] after the first n characters, cur the piece
\* being read
RECURSIVE splitTo(_, _)
splitTo(str, n) ==
  IF n = 0 THEN [tokens |-> <<>>, cur |-> <<>>, inGap |-> FALSE]
  ELSE With(splitTo(str, n - 1), LAMBDA sp :
         IF IsSpaceChar(str[n])
         THEN IF sp.inGap THEN sp
              ELSE [tokens |-> Append(sp.tokens, sp.cur), cur |-> <<>>, inGap |-> TRUE]
         ELSE [tokens |-> sp.tokens, cur |-> Append(sp.cur, str[n]), inGap |-> FALSE])

split(str) == With(splitTo(str, Len(str)), LAMBDA sp : Append(sp.tokens, sp.cur))

\* tokenize keeping the tokens of two characters
tokenizeFromTwo(text) ==
  SelectSeq(split(replaceNonWord(toLowerCase(text))), LAMBDA token : Len(token) > 1)

\* tokenize(text)
tokenize(text) ==
  SelectSeq(split(replaceNonWord(toLowerCase(text))), LAMBDA token : Len(token) > 2)

NumHashes == 3

\* the loop of embed over h for one token: the vector after hashes 0..h - 1
RECURSIVE embedToken(_, _, _, _, _)
embedToken(vector, token, freq, dimensions, h) ==
  IF h = 0 THEN vector
  ELSE With(embedToken(vector, token, freq, dimensions, h - 1), LAMBDA v :
         LET idx == HashMod(simpleHash(token, h - 1), dimensions)
             sign == IF HashMod(simpleHash(token, h - 1 + 1000), 2) = 0 THEN 1 ELSE 0 - 1
         IN [v EXCEPT ![idx + 1] = @ + sign * freq])

RECURSIVE embedTokens(_, _, _, _)
embedTokens(termFreq, tokens, dimensions, n) ==
  IF n = 0 THEN [i \in 1..dimensions |-> 0]
  ELSE With(embedTokens(termFreq, tokens, dimensions, n - 1), LAMBDA v :
         embedToken(v, termFreq[n], Cardinality({i \in 1..Len(tokens) : tokens[i] = termFreq[n]}),
                    dimensions, NumHashes))

\* embed(input, dimensions), up to a positive factor: every component of
\* the code's vector is the component here times 1 / (numHashes *
\* tokens.length * norm), so directions, cosines and the zero vector are
\* those of the code
embed(text, dimensions) ==
  With(tokenize(text), LAMBDA tokens :
    With(Dedup(tokens), LAMBDA termFreq :
      embedTokens(termFreq, tokens, dimensions, Len(termFreq))))

\* the L2 normalisation that ends embed: the squared norm of the returned
\* vector, every component having been divided by the norm when the norm is
\* positive.  Where the exact features cancel in every component the
\* Float32Array holds what the roundings of the additions left, a vector of
\* residues (then normalised) or the zero vector.
embedNormSq(text, dimensions) ==
  With(embed(text, dimensions), LAMBDA vector :
    IF Dot(vector, vector) > 0
    THEN {[num |-> Dot(vector, vector), den |-> Dot(vector, vector)]}
    ELSE IF tokenize(text) = <<>> THEN {[num |-> 0, den |-> 1]}
    ELSE {[num |-> 0, den |-> 1], [num |-> 1, den |-> 1]})

(***************************************************************************)
(* TrajectoryMatcher (packages/predictor/src/matcher.ts).  A span is a     *)
(* record of its fields, an absent text field is the empty string and an   *)
(* absent quality score is NoQuality.  The vector index of the matcher is  *)
(* the HNSWIndex of nodes and entryPoint, its inverted index the           *)
(* InvertedIndex of indices.                                               *)
(***************************************************************************)
\* parts.join(' ')
RECURSIVE Join(_, _)
Join(parts, n) ==
  IF n = 0 THEN <<>>
  ELSE IF n = 1 THEN parts[1]
  ELSE Join(parts, n - 1) \o <<" ">> \o parts[n]

\* spanToText(span): the truthy ones of who, did, this, if_ok, context.environment
spanToText(span) ==
  LET parts == SelectSeq(<<span.who, span.did, span.this, span.if_ok, span.env>>,
                         LAMBDA part : part # NoText)
  IN Join(parts, Len(parts))

\* contextToText(context, action): the action, then the environment if truthy
contextToText(env, action) ==
  LET parts == <<action>> \o SelectSeq(<<env>>, LAMBDA part : part # NoText)
  IN Join(parts, Len(parts))

\* embed(text, embeddingDim) tabulated over the texts of the model
embedOf ==
  LET texts == {spanToText(span) : span \in SpanInputs}
                 \cup {contextToText(inp.env, inp.action) : inp \in PredictInputs}
                 \cup StaleTexts
  IN [text \in texts |-> embed(text, EmbeddingDim)]

\* Map.prototype.get on the span store
HasSpan(store, id) == \E i \in 1..Len(store) : store[i].id = id

GetSpan(store, id) == store[CHOOSE i \in 1..Len(store) : store[i].id = id]

\* TemporalIndex.findInRange(range): the ids whose timestamp lies in
\* [start, end], both ends included
findInRange(tidx, range) ==
  Ids(SelectSeq(tidx, LAMBDA e : range.start <= e.when /\ e.when <= range.end))

\* QualityIndex.findAbove(threshold): the ids whose score reaches the threshold
findAbove(qidx, threshold) ==
  Ids(SelectSeq(qidx, LAMBDA e : e.score >= threshold))

\* the square of a non-negative fraction: a similarity c, carried as
\* sign(c)*c^2, is below a bound b >= 0 when it is below Sq(b)
Sq(r) == [num |-> r.num * r.num, den |-> r.den * r.den]

\* the score above which synthesize returns the top evidence
HighScore == [num |-> 4, den |-> 5]

\* a score in hundredths, rounded down and up
ScoreLo(score) ==
  CHOOSE x \in 0..100 : /\ x * x * score.den <= 10000 * score.num
                        /\ (x = 100 \/ (x + 1) * (x + 1) * score.den > 10000 * score.num)

ScoreHi(score) ==
  CHOOSE x \in 0..100 : /\ x * x * score.den >= 10000 * score.num
                        /\ (x = 0 \/ (x - 1) * (x - 1) * score.den < 10000 * score.num)

RECURSIVE SumSeq(_, _)
SumSeq(s, n) == IF n = 0 THEN 0 ELSE s[n] + SumSeq(s, n - 1)

MaxOf(S) == CHOOSE x \in S : \A y \in S : y <= x

MinOf(S) == CHOOSE x \in S : \A y \in S : x <= y

Clamp(x) == IF x < 0 THEN 0 ELSE IF x > 10000 THEN 10000 ELSE x

\* the confidence without the evidence-count factor
calculateConfidenceNoCount(evidence) ==
  LET n == Len(evidence)
      los == [i \in 1..n |-> ScoreLo(evidence[i].score)]
      his == [i \in 1..n |-> ScoreHi(evidence[i].score)]
      avgLo == (60 * SumSeq(los, n)) \div n
      avgHi == (60 * SumSeq(his, n) + n - 1) \div n
      spread == MaxOf({his[i] : i \in 1..n}) - MinOf({los[i] : i \in 1..n})
      exact == \A i \in 1..n : evidence[i].score = evidence[1].score
      varLo == IF exact THEN 2000
               ELSE IF (spread * spread + 3) \div 4 > 2000 THEN 0
               ELSE 2000 - (spread * spread + 3) \div 4
  IN [lo |-> Clamp(avgLo + varLo - 1),
      hi |-> Clamp(avgHi + 2000 + 1)]

\* calculateConfidence(evidence, totalCandidates) for non-empty evidence, in
\* hundredths of a point, as the interval [lo, hi] the code's double lies
\* in: 60 * avgScore + 20 * min(n / 5, 1) + 20 * exp(-5 * variance), where
\* 0 <= variance <= (max - min)^2 / 4 and 1 - x <= exp(-x) <= 1, and one
\* hundredth each way for the rounding of the doubles
calculateConfidence(evidence) ==
  LET n == Len(evidence)
      los == [i \in 1..n |-> ScoreLo(evidence[i].score)]
      his == [i \in 1..n |-> ScoreHi(evidence[i].score)]
      avgLo == (60 * SumSeq(los, n)) \div n
      avgHi == (60 * SumSeq(his, n) + n - 1) \div n
      countFactor == 400 * (IF n < 5 THEN n ELSE 5)
      spread == MaxOf({his[i] : i \in 1..n}) - MinOf({los[i] : i \in 1..n})
      exact == \A i \in 1..n : evidence[i].score = evidence[1].score
      varLo == IF exact THEN 2000
               ELSE IF (spread * spread + 3) \div 4 > 2000 THEN 0
               ELSE 2000 - (spread * spread + 3) \div 4
  IN [lo |-> Clamp(avgLo + countFactor + varLo - 1),
      hi |-> Clamp(avgHi + countFactor + 2000 + 1)]

\* a confidence the code returns as a literal
Exactly(points) == [lo |-> 100 * points, hi |-> 100 * points]

\* [...evidence].sort((a, b) => b.score - a.score): stable, highest first
InsertByScore(sorted, e) ==
  LET after == {p \in 1..Len(sorted) : RatLess(sorted[p].score, e.score)}
      at == IF after = {} THEN Len(sorted) + 1
            ELSE CHOOSE p \in after : \A r \in after : p <= r
  IN SubSeq(sorted, 1, at - 1) \o <<e>> \o SubSeq(sorted, at, Len(sorted))

RECURSIVE SortByScore(_)
SortByScore(evidence) ==
  IF Len(evidence) <= 1 THEN evidence
  ELSE With(SortByScore(SubSeq(evidence, 1, Len(evidence) - 1)),
            LAMBDA sorted : InsertByScore(sorted, evidence[Len(evidence)]))

\* the loop with count >= maxCount: the last of the most frequent values
RECURSIVE mostCommonLoopLast(_, _, _)
mostCommonLoopLast(outcomes, keys, n) ==
  IF n = 0 THEN [maxCount |-> 0, mostCommon |-> outcomes[1]]
  ELSE With(mostCommonLoopLast(outcomes, keys, n - 1), LAMBDA st :
         LET count == Cardinality({i \in 1..Len(outcomes) : outcomes[i] = keys[n]})
         IN IF count >= st.maxCount THEN [maxCount |-> count, mostCommon |-> keys[n]]
            ELSE st)

\* the second loop of findMostCommonOutcome over the first n keys of the
\* counts map: [maxCount, mostCommon]
RECURSIVE mostCommonLoop(_, _, _)
mostCommonLoop(outcomes, keys, n) ==
  IF n = 0 THEN [maxCount |-> 0, mostCommon |-> outcomes[1]]
  ELSE With(mostCommonLoop(outcomes, keys, n - 1), LAMBDA st :
         LET count == Cardinality({i \in 1..Len(outcomes) : outcomes[i] = keys[n]})
         IN IF count > st.maxCount THEN [maxCount |-> count, mostCommon |-> keys[n]]
            ELSE st)

\* findMostCommonOutcome(outcomes)
findMostCommonOutcome(outcomes) ==
  IF Len(outcomes) = 0 THEN NoText
  ELSE With(Dedup(outcomes), LAMBDA keys :
         mostCommonLoop(outcomes, keys, Len(keys)).mostCommon)

\* synthesize(evidence, context, action) for non-empty evidence
synthesize(evidence) ==
  With(SortByScore(evidence), LAMBDA sorted :
    IF RatLess(Sq(HighScore), sorted[1].score) THEN sorted[1].content
    ELSE IF Len(sorted) >= 3
    THEN findMostCommonOutcome([i \in 1..Len(Slice(sorted, 5)) |-> sorted[i].content])
    ELSE sorted[1].content)

\* the plan predict works with: plan || {topK: defaultTopK, minQuality: 60}
searchPlanOf(inp) ==
  IF inp.hasPlan
  THEN [topK |-> inp.topK, minQuality |-> inp.minQuality, timeRange |-> inp.timeRange]
  ELSE [topK |-> DefaultTopK, minQuality |-> DefaultMinQuality, timeRange |-> NoRange]

\* the keys of the span store, whatever the vector index
vectorCandidatesStore(store, att, N, ep, queryEmbedding, topK) ==
  [err |-> "none", ids |-> Ids(store)]

\* step 2 of predict: [err, ids], the candidates of the vector search or,
\* without a vector index holding an entry, the keys of the span store
vectorCandidates(store, att, N, ep, queryEmbedding, topK) ==
  IF att.vector /\ Len(N) > 0
  THEN With(search(N, ep, queryEmbedding, topK * 3),
            LAMBDA r : [err |-> r.err, ids |-> Ids(r.res)])
  ELSE [err |-> "none", ids |-> Ids(store)]

\* the candidates as they are, whatever the filters
filterCandidatesNone(att, idx, tidx, qidx, candidateIds, action, searchPlan) == candidateIds

\* steps 3 to 5 of predict: the action, temporal and quality filters
filterCandidates(att, idx, tidx, qidx, candidateIds, action, searchPlan) ==
  LET byAction == IF att.inverted /\ action # NoText
                  THEN filterByAction(idx, [null |-> FALSE, ids |-> candidateIds],
                                      action, TRUE)
                  ELSE candidateIds
      byTime == IF att.temporal /\ searchPlan.timeRange.has
                THEN SelectSeq(byAction, LAMBDA id :
                       id \in Elems(findInRange(tidx, searchPlan.timeRange)))
                ELSE byAction
  IN IF att.quality /\ searchPlan.minQuality # 0
     THEN SelectSeq(byTime, LAMBDA id :
            id \in Elems(findAbove(qidx, searchPlan.minQuality)))
     ELSE byTime

\* the pass without the comparison with minScore
evidenceOfAnyScore(store, id, queryEmbedding) ==
  IF ~HasSpan(store, id) THEN <<>>
  ELSE LET span == GetSpan(store, id)
           spanText == spanToText(span)
       IN <<[id |-> span.id,
             score |-> cosineSimilarity(queryEmbedding, embedOf[spanText]),
             content |-> IF span.if_ok # NoText THEN span.if_ok
                         ELSE IF span.if_not # NoText THEN span.if_not
                         ELSE spanText,
             metadata |-> [action |-> span.did, quality |-> span.quality,
                           when |-> span.when]]>>

\* one pass of the loop of step 6 over the candidate id
evidenceOf(store, id, queryEmbedding) ==
  IF ~HasSpan(store, id) THEN <<>>
  ELSE LET span == GetSpan(store, id)
           spanText == spanToText(span)
           score == cosineSimilarity(queryEmbedding, embedOf[spanText])
       IN IF RatLess(score, Sq(MinScore)) THEN <<>>
          ELSE <<[id |-> span.id, score |-> score,
                  content |-> IF span.if_ok # NoText THEN span.if_ok
                              ELSE IF span.if_not # NoText THEN span.if_not
                              ELSE spanText,
                  metadata |-> [action |-> span.did, quality |-> span.quality,
                                when |-> span.when]]>>

\* the evidence of every candidate, without the slice
collectEvidenceAll(store, candidateIds, queryEmbedding, topK) ==
  LET items == [i \in 1..Len(candidateIds) |->
                  evidenceOf(store, candidateIds[i], queryEmbedding)]
  IN Concat(items, Len(items))

\* step 6 of predict: the evidence of candidateIds.slice(0, topK)
collectEvidence(store, candidateIds, queryEmbedding, topK) ==
  LET firstIds == Slice(candidateIds, topK)
      items == [i \in 1..Len(firstIds) |-> evidenceOf(store, firstIds[i], queryEmbedding)]
  IN Concat(items, Len(items))

NoTrace == [reads |-> {}, prefilter |-> <<>>, candidates |-> <<>>]

\* the collaborators predict reads once the plan is accepted
ReadsOf(att, N, action, searchPlan) ==
  (IF att.vector THEN {"vector"} ELSE {})
    \cup (IF att.vector /\ Len(N) > 0 THEN {} ELSE {"spans"})
    \cup (IF att.inverted /\ action # NoText THEN {"inverted"} ELSE {})
    \cup (IF att.temporal /\ searchPlan.timeRange.has THEN {"temporal"} ELSE {})
    \cup (IF att.quality /\ searchPlan.minQuality # 0 THEN {"quality"} ELSE {})

\* a prediction whose trajectories_used counts its evidence
PredictionCountingEvidence(method, confidence, used, hasEvidence, evidence, output, searchPlan, trace) ==
  [threw |-> "none", method |-> method, confidence |-> confidence,
   trajectories_used |-> Len(evidence), hasEvidence |-> hasEvidence, evidence |-> evidence,
   output |-> output, plan |-> searchPlan, trace |-> trace]

Prediction(method, confidence, used, hasEvidence, evidence, output, searchPlan, trace) ==
  [threw |-> "none", method |-> method, confidence |-> confidence,
   trajectories_used |-> used, hasEvidence |-> hasEvidence, evidence |-> evidence,
   output |-> output, plan |-> searchPlan, trace |-> trace]

\* a rejected predict
Rejected(err, searchPlan, trace) ==
  [threw |-> err, method |-> "none", confidence |-> Exactly(0),
   trajectories_used |-> 0, hasEvidence |-> FALSE, evidence |-> <<>>,
   output |-> [kind |-> "none", content |-> NoText], plan |-> searchPlan,
   trace |-> trace]

\* the success return, whatever the confidence
concludeAlwaysMatching(evidence, searchPlan, trace) ==
  {Prediction("trajectory_matching", calculateConfidence(evidence), Len(evidence), TRUE,
              evidence, [kind |-> "answer", content |-> synthesize(evidence)],
              searchPlan, trace)}

\* steps 7 and 8 of predict and the two returns after them: the predictions
\* the comparison confidence < minConfidence allows
concludeWith(evidence, searchPlan, trace) ==
  LET output == synthesize(evidence)
      confidence == calculateConfidence(evidence)
  IN (IF confidence.lo < 100 * MinConfidence
      THEN {Prediction("low_confidence", confidence, Len(evidence), TRUE, evidence,
                       [kind |-> "low", content |-> output], searchPlan, trace)}
      ELSE {})
     \cup
     (IF confidence.hi >= 100 * MinConfidence
      THEN {Prediction("trajectory_matching", confidence, Len(evidence), TRUE, evidence,
                       [kind |-> "answer", content |-> output], searchPlan, trace)}
      ELSE {})

\* predict(context, action, plan) from step 1 on
predictFrom(store, att, N, ep, idx, tidx, qidx, inp, searchPlan) ==
  LET queryEmbedding == embedOf[contextToText(inp.env, inp.action)]
      reads == ReadsOf(att, N, inp.action, searchPlan)
  IN With(vectorCandidates(store, att, N, ep, queryEmbedding, searchPlan.topK),
       LAMBDA found :
         IF found.err # "none"
         THEN {Rejected(found.err, searchPlan,
                        [reads |-> {"vector"}, prefilter |-> <<>>, candidates |-> <<>>])}
         ELSE With(filterCandidates(att, idx, tidx, qidx, found.ids, inp.action, searchPlan),
                LAMBDA candidateIds :
                  LET trace == [reads |-> reads, prefilter |-> found.ids,
                                candidates |-> candidateIds]
                  IN IF Len(candidateIds) = 0
                     THEN {Prediction("low_confidence", Exactly(5), 0, FALSE, <<>>,
                                      [kind |-> "no_match", content |-> NoText],
                                      searchPlan, trace)}
                     ELSE With(collectEvidence(store, candidateIds, queryEmbedding,
                                               searchPlan.topK),
                            LAMBDA evidence :
                              IF Len(evidence) = 0
                              THEN {Prediction("low_confidence", Exactly(15),
                                               Len(candidateIds), TRUE, <<>>,
                                               [kind |-> "no_evidence", content |-> NoText],
                                               searchPlan,
                                               [trace EXCEPT !.reads = @ \cup {"spans"}])}
                              ELSE concludeWith(evidence, searchPlan,
                                                [trace EXCEPT !.reads = @ \cup {"spans"}]))))

\* predict without the check of the plan
predictAnyPlan(store, att, N, ep, idx, tidx, qidx, inp) ==
  predictFrom(store, att, N, ep, idx, tidx, qidx, inp, searchPlanOf(inp))

\* predict(context, action, plan): the set of predictions the call can return
predict(store, att, N, ep, idx, tidx, qidx, inp) ==
  LET searchPlan == searchPlanOf(inp)
  IN IF searchPlan.topK < MinTopK
     THEN {Prediction("low_confidence", Exactly(10), 0, FALSE, <<>>,
                      [kind |-> "insufficient", content |-> NoText], searchPlan, NoTrace)}
     ELSE predictFrom(store, att, N, ep, idx, tidx, qidx, inp, searchPlan)

MInit ==
  /\ spans = <<>>
  /\ attached = NoIndices
  /\ temporal = <<>>
  /\ quality = <<>>
  /\ mErr = "none"
  /\ completed = {}
  /\ pred = NoRet

\* setIndices(indices) with fresh indices, called on the fresh matcher or
\* on a matcher that has had no index so far
MSetIndices ==
  /\ nodes = <<>>
  /\ \E att \in IndexSets :
       /\ spans = <<>> \/ (attached = NoIndices /\ att \in LateIndexSets)
       /\ attached' = att
  /\ pred' = NoRet
  /\ UNCHANGED <<spans, temporal, quality, mErr, completed>>
  /\ UNCHANGED <<hnswVars, ivfVars, iiVars, fVars>>

\* the inverted index after the two add calls of addSpan
addSpanInverted(idx, span) ==
  LET withAction == IF span.did # NoText THEN add(idx, span.id, "action", span.did)
                    ELSE idx
  IN IF span.env # NoText THEN add(withAction, span.id, "domain", span.env)
     ELSE withAction

\* the calls addSpan makes after the vector index took the span
AddSpanIndexed(span) ==
  /\ indices' = IF attached.inverted THEN addSpanInverted(indices, span) ELSE indices
  /\ added' = IF attached.inverted
              THEN [pr \in Pairs |->
                      IF pr = <<"action", span.did>> \/ (pr = <<"domain", span.env>>)
                      THEN Append(added[pr], span.id) ELSE added[pr]]
              ELSE added
  /\ temporal' = IF attached.temporal /\ span.when # 0
                 THEN Append(temporal, [id |-> span.id, when |-> span.when])
                 ELSE temporal
  /\ quality' = IF attached.quality /\ span.quality # NoQuality
                THEN Append(quality, [id |-> span.id, score |-> span.quality])
                ELSE quality

\* an addSpan that goes on to the other indices after a failed insert
MAddSpanIndexingAnyway ==
  /\ Len(spans) < MaxSpans
  /\ \E s \in SpanInputs, level \in 0..MaxLevel :
       LET span == [id |-> IF attached.vector THEN Len(nodes) + 1
                           ELSE MaxNodes + Len(spans) + 1,
                    who |-> s.who, did |-> s.did, this |-> s.this, if_ok |-> s.if_ok,
                    if_not |-> s.if_not, env |-> s.env, when |-> s.when,
                    quality |-> s.quality]
       IN /\ spans' = Append(spans, span)
          /\ IF attached.vector
             THEN LET r == insert(nodes, entryPoint, span.id, embedOf[spanToText(span)], level)
                  IN /\ nodes' = r.nodes
                     /\ entryPoint' = r.entryPoint
                     /\ hnswErr' = r.err
                     /\ hnswFailed' = (hnswFailed \/ r.err # "none")
                     /\ mErr' = r.err
                     /\ completed' = IF r.err = "none" THEN completed \cup {span.id}
                                     ELSE completed
                     /\ AddSpanIndexed(span)
             ELSE /\ level = 0
                  /\ mErr' = "none"
                  /\ completed' = completed \cup {span.id}
                  /\ AddSpanIndexed(span)
                  /\ UNCHANGED <<nodes, entryPoint, hnswErr, hnswFailed>>
  /\ pred' = NoRet
  /\ hnswRet' = NoRet
  /\ iiRet' = NoRet
  /\ UNCHANGED attached
  /\ UNCHANGED <<ivfVars, fVars>>

\* addSpan(span) with a span of a fresh id: the next position of the graph
\* when a vector index is attached, an id past those positions otherwise
MAddSpan ==
  /\ Len(spans) < MaxSpans
  /\ \E s \in SpanInputs, level \in 0..MaxLevel :
       LET span == [id |-> IF attached.vector THEN Len(nodes) + 1
                           ELSE MaxNodes + Len(spans) + 1,
                    who |-> s.who, did |-> s.did, this |-> s.this, if_ok |-> s.if_ok,
                    if_not |-> s.if_not, env |-> s.env, when |-> s.when,
                    quality |-> s.quality]
       IN /\ spans' = Append(spans, span)
          /\ IF attached.vector
             THEN LET r == insert(nodes, entryPoint, span.id, embedOf[spanToText(span)], level)
                  IN /\ nodes' = r.nodes
                     /\ entryPoint' = r.entryPoint
                     /\ hnswErr' = r.err
                     /\ hnswFailed' = (hnswFailed \/ r.err # "none")
                     /\ mErr' = r.err
                     /\ completed' = IF r.err = "none" THEN completed \cup {span.id}
                                     ELSE completed
                     /\ IF r.err = "none" THEN AddSpanIndexed(span)
                        ELSE UNCHANGED <<indices, added, temporal, quality>>
             ELSE /\ level = 0
                  /\ mErr' = "none"
                  /\ completed' = completed \cup {span.id}
                  /\ AddSpanIndexed(span)
                  /\ UNCHANGED <<nodes, entryPoint, hnswErr, hnswFailed>>
  /\ pred' = NoRet
  /\ hnswRet' = NoRet
  /\ iiRet' = NoRet
  /\ UNCHANGED attached
  /\ UNCHANGED <<ivfVars, fVars>>

\* the owner of the attached vector index inserts an entry of its own
MExternalInsert ==
  /\ attached.vector
  /\ Cardinality({i \in 1..Len(nodes) : ~HasSpan(spans, nodes[i].id)}) < MaxStale
  /\ \E vector \in {embedOf[text] : text \in StaleTexts} \cup {<<1, 0>>}, level \in 0..MaxLevel :
       LET r == insert(nodes, entryPoint, Len(nodes) + 1, vector, level)
       IN /\ nodes' = r.nodes
          /\ entryPoint' = r.entryPoint
          /\ hnswErr' = r.err
          /\ hnswFailed' = (hnswFailed \/ r.err # "none")
  /\ hnswRet' = NoRet
  /\ pred' = NoRet
  /\ UNCHANGED <<spans, attached, temporal, quality, mErr, completed>>
  /\ UNCHANGED <<ivfVars, iiVars, fVars>>

\* a predict that detaches the indices it has read
MPredictDetaching ==
  /\ \E inp \in PredictInputs :
       \E p \in predict(spans, attached, nodes, entryPoint, indices, temporal, quality, inp) :
         pred' = [op |-> "predict", inp |-> inp, res |-> p]
  /\ attached' = NoIndices
  /\ UNCHANGED <<spans, temporal, quality, mErr, completed>>
  /\ UNCHANGED <<hnswVars, ivfVars, iiVars, fVars>>

\* predict(context, action, plan)
MPredict ==
  /\ \E inp \in PredictInputs :
       \E p \in predict(spans, attached, nodes, entryPoint, indices, temporal, quality, inp) :
         pred' = [op |-> "predict", inp |-> inp, res |-> p]
  /\ UNCHANGED <<spans, attached, temporal, quality, mErr, completed>>
  /\ UNCHANGED <<hnswVars, ivfVars, iiVars, fVars>>

\* no pure function has been called
FInit ==
  /\ fnArgs = NoRet
  /\ fnRet = NoRet

\* evidence lists handed to synthesize: every list of one to MaxEvidence
\* items over three contents, with the scores all equal (0.5), rising with
\* the position (0.3, 0.4, ...), alternating (0.6, 0.5, 0.6, ...), or all
\* equal but for a last item of 0.9
EvidenceContents == {TxtDone, TxtCreate, TxtProd}

EvidenceScore(pattern, i, n) ==
  CASE pattern = "flat" -> [num |-> 1, den |-> 4]
    [] pattern = "rising" -> [num |-> (i + 2) * (i + 2), den |-> 100]
    [] pattern = "alternating" -> IF i % 2 = 1 THEN [num |-> 9, den |-> 25]
                                  ELSE [num |-> 1, den |-> 4]
    [] pattern = "high last" -> IF i = n THEN [num |-> 81, den |-> 100]
                                ELSE [num |-> 1, den |-> 4]

SynthesizeInputs ==
  {[i \in 1..Len(contents) |->
      [id |-> i, score |-> EvidenceScore(pattern, i, Len(contents)),
       content |-> contents[i]]] :
     contents \in UNION {[1..n -> EvidenceContents] : n \in 1..MaxEvidence},
     pattern \in {"flat", "rising", "alternating", "high last"}}

\* scores and labels handed to fitPlatt, the labels in tenths: every pair of
\* a score list and a label list of up to MaxSamples entries each
PlattScores == {0, 1}

PlattLabels == {0, 5, 10}

PlattInputs ==
  {[scores |-> scores, labels |-> labels] :
     scores \in UNION {[1..n -> PlattScores] : n \in 0..MaxSamples},
     labels \in UNION {[1..n -> PlattLabels] : n \in 0..MaxSamples}}

\* { a: -1, b: 0 }, the parameters written as the code writes them
InitialModel == [a |-> "-1", b |-> "0"]

\* parameters the descent has moved away from the initial model
FittedModel == [a |-> "fitted", b |-> "fitted"]

\* applyPlatt(score, {a: -1, b: 0}) = 1 / (1 + exp(-score)) in millionths,
\* rounded down and up, for the scores of PlattScores
applyPlattLo(score) == IF score = 0 THEN 500000 ELSE 731058

applyPlattHi(score) == IF score = 0 THEN 500000 ELSE 731059

\* gradA and gradB of the first iteration, as intervals in units of
\* 1 / (1000000 * (nPos + 2) * (nNeg + 2)); half is the label value 0.5 in
\* tenths and strict says whether a label must exceed it to be positive
firstGradient(scores, labels, nPos, nNeg, strict) ==
  LET K == (nPos + 2) * (nNeg + 2)
      target(i) == IF (IF strict THEN labels[i] > 5 ELSE labels[i] >= 5)
                   THEN (nPos + 1) * (nNeg + 2)
                   ELSE nPos + 2
      n == Len(scores)
      errLo == [i \in 1..n |-> applyPlattLo(scores[i]) * K - 1000000 * target(i)]
      errHi == [i \in 1..n |-> applyPlattHi(scores[i]) * K - 1000000 * target(i)]
  IN [aLo |-> SumSeq([i \in 1..n |-> errLo[i] * scores[i]], n),
      aHi |-> SumSeq([i \in 1..n |-> errHi[i] * scores[i]], n),
      bLo |-> SumSeq(errLo, n),
      bHi |-> SumSeq(errHi, n)]

\* the models the loop of fitPlatt can end with.  Each update lowers the
\* loss (learning rate 0.01) while the gradient is not zero, so the
\* parameters leave the initial model for good when the first gradient is
\* not zero; with a first gradient of zero, or one too close to zero to
\* tell, the doubles end at the initial model or next to it
descent(scores, labels, nPos, nNeg, strict) ==
  LET g == firstGradient(scores, labels, nPos, nNeg, strict)
  IN IF g.aLo > 0 \/ g.aHi < 0 \/ g.bLo > 0 \/ g.bHi < 0 THEN {FittedModel}
     ELSE {InitialModel, FittedModel}

\* fitPlatt with a label of 0.5 counted as positive
fitPlattAtLeastHalf(scores, labels) ==
  IF Len(scores) # Len(labels) THEN {[threw |-> "Error", model |-> InitialModel]}
  ELSE IF Len(scores) = 0 THEN {[threw |-> "none", model |-> InitialModel]}
  ELSE LET nPos == Cardinality({i \in 1..Len(labels) : labels[i] >= 5})
           nNeg == Len(labels) - nPos
       IN IF nPos = 0 \/ nNeg = 0 THEN {[threw |-> "none", model |-> InitialModel]}
          ELSE {[threw |-> "none", model |-> m] :
                  m \in descent(scores, labels, nPos, nNeg, FALSE)}

\* fitPlatt(scores, labels): the outcomes of the call, an error or a model
fitPlatt(scores, labels) ==
  IF Len(scores) # Len(labels) THEN {[threw |-> "Error", model |-> InitialModel]}
  ELSE IF Len(scores) = 0 THEN {[threw |-> "none", model |-> InitialModel]}
  ELSE LET nPos == Cardinality({i \in 1..Len(labels) : labels[i] > 5})
           nNeg == Len(labels) - nPos
       IN IF nPos = 0 \/ nNeg = 0 THEN {[threw |-> "none", model |-> InitialModel]}
          ELSE {[threw |-> "none", model |-> m] :
                  m \in descent(scores, labels, nPos, nNeg, TRUE)}

\* calibration scores (in tenths) and significance levels handed to
\* calibrate, splitConformal and predictionSet; the new score and the label
\* scores of the latter two
CalibrationInputs ==
  {[scores |-> scores, alpha |-> alpha] :
     scores \in UNION {[1..n -> {1, 2, 3}] : n \in 0..MaxCalibration},
     alpha \in {[num |-> 1, den |-> 20], [num |-> 1, den |-> 10],
                [num |-> 1, den |-> 2], [num |-> 9, den |-> 10]}}

NewScore == 5

LabelScores == <<[label |-> "a", score |-> 1], [label |-> "b", score |-> 3],
                 [label |-> "c", score |-> 2]>>

\* [...scores].sort((a, b) => a - b)
InsertAscending(sorted, x) ==
  LET after == {p \in 1..Len(sorted) : sorted[p] > x}
      at == IF after = {} THEN Len(sorted) + 1
            ELSE CHOOSE p \in after : \A r \in after : p <= r
  IN SubSeq(sorted, 1, at - 1) \o <<x>> \o SubSeq(sorted, at, Len(sorted))

RECURSIVE SortAscending(_)
SortAscending(scores) ==
  IF Len(scores) <= 1 THEN scores
  ELSE InsertAscending(SortAscending(SubSeq(scores, 1, Len(scores) - 1)),
                       scores[Len(scores)])

\* Math.ceil((n + 1) * (1 - alpha)) - 1 for alpha = num / den
quantileIdxOf(n, alpha) ==
  ((n + 1) * (alpha.den - alpha.num) + alpha.den - 1) \div alpha.den - 1

\* the index with Math.floor in place of Math.ceil
calibrateFloor(scores, alpha) ==
  IF Len(scores) = 0 THEN [threw |-> "Error", value |-> 0, scores |-> scores]
  ELSE LET sorted == SortAscending(scores)
           n == Len(sorted)
           quantileIdx == ((n + 1) * (alpha.den - alpha.num)) \div alpha.den - 1
           idx == IF quantileIdx > n - 1 THEN n - 1
                  ELSE IF quantileIdx < 0 THEN 0 ELSE quantileIdx
       IN [threw |-> "none", value |-> sorted[idx + 1], scores |-> scores]

\* calibrate(scores, alpha): the error raised, the value returned, and the
\* caller's array after the call (the sort works on a copy)
calibrate(scores, alpha) ==
  IF Len(scores) = 0 THEN [threw |-> "Error", value |-> 0, scores |-> scores]
  ELSE LET sorted == SortAscending(scores)
           n == Len(sorted)
           quantileIdx == quantileIdxOf(n, alpha)
           idx == IF quantileIdx > n - 1 THEN n - 1
                  ELSE IF quantileIdx < 0 THEN 0 ELSE quantileIdx
       IN [threw |-> "none", value |-> sorted[idx + 1], scores |-> scores]

\* splitConformal(calibrationScores, newScore, alpha): interval(newScore,
\* calibrate(calibrationScores, alpha), alpha)
splitConformal(calibrationScores, newScore, alpha) ==
  LET quantile == calibrate(calibrationScores, alpha)
  IN IF quantile.threw # "none"
     THEN [threw |-> quantile.threw, value |-> <<>>, scores |-> quantile.scores]
     ELSE [threw |-> "none",
           value |-> [lower |-> newScore - quantile.value,
                      upper |-> newScore + quantile.value,
                      coverage |-> [num |-> alpha.den - alpha.num, den |-> alpha.den]],
           scores |-> quantile.scores]

\* predictionSet with score < threshold
predictionSetStrict(labelScores, calibrationScores, alpha) ==
  LET threshold == calibrate(calibrationScores, alpha)
  IN IF threshold.threw # "none"
     THEN [threw |-> threshold.threw, value |-> <<>>, scores |-> threshold.scores]
     ELSE [threw |-> "none",
           value |-> [i \in 1..Len(SelectSeq(labelScores,
                                              LAMBDA e : e.score < threshold.value)) |->
                        SelectSeq(labelScores,
                                  LAMBDA e : e.score < threshold.value)[i].label],
           scores |-> threshold.scores]

\* predictionSet(scores, calibrationScores, alpha)
predictionSet(labelScores, calibrationScores, alpha) ==
  LET threshold == calibrate(calibrationScores, alpha)
  IN IF threshold.threw # "none"
     THEN [threw |-> threshold.threw, value |-> <<>>, scores |-> threshold.scores]
     ELSE [threw |-> "none",
           value |-> [i \in 1..Len(SelectSeq(labelScores,
                                              LAMBDA e : e.score <= threshold.value)) |->
                        SelectSeq(labelScores,
                                  LAMBDA e : e.score <= threshold.value)[i].label],
           scores |-> threshold.scores]

\* the arguments of one call of a pure function
\* A component of a number[] handed to cosineSimilarity is m + h * 1e200: a
\* small integer m, or a double whose square exceeds the largest double.
Fin(m) == [m |-> m, h |-> 0]

Huge == [m |-> 0, h |-> 1]

CosineComponents == {Fin(0), Fin(1), Fin(2), Fin(0 - 1), Huge}

CosineVectors ==
  {<<x>> : x \in CosineComponents} \cup {<<x, y>> : x, y \in CosineComponents}

\* the small part of a vector
FinPart(a) == [i \in 1..Len(a) |-> a[i].m]

HasHuge(a) == \E i \in 1..Len(a) : a[i].h # 0

\* the double a[i] * b[i]: "fin" for a finite product, the sign of the
\* infinity for a product that overflows
ProductClass(x, y) ==
  IF x.h * y.h > 0 THEN "+inf" ELSE IF x.h * y.h < 0 THEN "-inf" ELSE "fin"

\* the double dotProduct after the loop: finite, an infinity, or NaN when
\* infinities of both signs were added
DotClass(a, b) ==
  LET classes == {ProductClass(a[i], b[i]) : i \in 1..Len(a)}
  IN IF "+inf" \in classes /\ "-inf" \in classes THEN "nan"
     ELSE IF "+inf" \in classes THEN "+inf"
     ELSE IF "-inf" \in classes THEN "-inf"
     ELSE "fin"

ZeroRat == [num |-> 0, den |-> 1]

\* cosineSimilarity(a, b) on doubles: [threw, nan, value].  normA is
\* Infinity when a holds a huge component; Infinity * 0 is NaN, NaN === 0 is
\* false and x / NaN is NaN; a finite x over Infinity is 0 and Infinity over
\* Infinity is NaN.
cosineSimilarityDouble(a, b) ==
  IF Len(a) # Len(b)
  THEN [threw |-> "Vector dimensions must match", nan |-> FALSE, value |-> ZeroRat]
  ELSE IF ~HasHuge(a) /\ ~HasHuge(b)
  THEN [threw |-> "none", nan |-> FALSE,
        value |-> cosineSimilarity(FinPart(a), FinPart(b))]
  ELSE IF (~HasHuge(a) /\ Dot(FinPart(a), FinPart(a)) = 0)
            \/ (~HasHuge(b) /\ Dot(FinPart(b), FinPart(b)) = 0)
  THEN [threw |-> "none", nan |-> TRUE, value |-> ZeroRat]
  ELSE [threw |-> "none", nan |-> DotClass(a, b) # "fin", value |-> ZeroRat]

\* insert sequences handed to a fresh HNSWIndex: up to MaxInserts vectors of
\* two directions, with the levels drawn all 0, or 1 for the first node
\* only, or all 1
MaxInserts == 6

InsertVecs == {<<1, 0>>, <<0, 1>>}

InsertLevels(n) ==
  {[i \in 1..n |-> 0], [i \in 1..n |-> IF i = 1 THEN 1 ELSE 0], [i \in 1..n |-> 1]}

InsertInputs ==
  UNION {{[vecs |-> vecs, levels |-> levels, query |-> query] :
            vecs \in [1..n -> InsertVecs], levels \in InsertLevels(n),
            query \in InsertVecs} : n \in 1..MaxInserts}

\* the index after insert(1, vecs[1]) .. insert(n, vecs[n]) on a fresh
\* HNSWIndex, and whether one of the calls raised
RECURSIVE insertAll(_, _, _)
insertAll(vecs, levels, n) ==
  IF n = 0 THEN [nodes |-> <<>>, entryPoint |-> 0, failed |-> FALSE]
  ELSE With(insertAll(vecs, levels, n - 1), LAMBDA S :
         With(insert(S.nodes, S.entryPoint, n, vecs[n], levels[n]), LAMBDA r :
           [nodes |-> r.nodes, entryPoint |-> r.entryPoint,
            failed |-> S.failed \/ r.err # "none"]))

\* Math.exp(x) is below half an ulp of 1 from x = -37 down, so that
\* 1 + Math.exp(x) is 1; it is Infinity from x = 710 up
ExpUnderflow == 37

ExpOverflow == 710

\* scores and parameters handed to applyPlatt
ApplyScores == {0 - 40, 0, 1, 36, 37, 38, 355, 709, 710, 711}

ApplyModels == {[a |-> a, b |-> b] : a \in {0 - 1, 0, 1, 2}, b \in {0 - 1, 0}}

\* applyPlatt with exp(-(a * score + b))
applyPlattNegated(score, model) ==
  LET linearCombination == 0 - (model.a * score + model.b)
  IN [zero |-> linearCombination >= ExpOverflow,
      one |-> linearCombination <= 0 - ExpUnderflow,
      rank |-> 0 - (IF linearCombination >= ExpOverflow THEN ExpOverflow
                    ELSE IF linearCombination <= 0 - ExpUnderflow THEN 0 - ExpUnderflow
                    ELSE linearCombination)]

\* applyPlatt(score, model) for an integer a * score + b: whether the double
\* 1 / (1 + Math.exp(a * score + b)) is 0, whether it is 1, and its rank
\* among the results (a greater rank is a greater double; between the two
\* thresholds the doubles of distinct integers are distinct)
applyPlatt(score, model) ==
  LET linearCombination == model.a * score + model.b
  IN [zero |-> linearCombination >= ExpOverflow,
      one |-> linearCombination <= 0 - ExpUnderflow,
      rank |-> 0 - (IF linearCombination >= ExpOverflow THEN ExpOverflow
                    ELSE IF linearCombination <= 0 - ExpUnderflow THEN 0 - ExpUnderflow
                    ELSE linearCombination)]

\* inputs of embed: an empty string, strings of tokens of at most two
\* characters, one and two tokens, two tokens whose features cancel in one
\* dimension, and the texts of the matcher
EmbedTexts ==
  {<<>>, <<"a", "b", " ", "c", "d">>, <<"a", "?", "b", "c">>, <<"a", "a", "a">>,
   <<"a", "a", "a", " ", "a", "a", "b">>, <<"a", "b", "c", " ", "a", "b", "d">>}
    \cup {spanToText(span) : span \in SpanInputs} \cup StaleTexts

EmbedDims == {1, 2, EmbeddingDim}

\* IVFIndex built from a map and searched, for the comparison with the exact
\* scan: maps of one to MaxBuild vectors, nClusters and nProbe of the
\* configuration, a query and a result size
MaxBuild == 3
BuildVecs == {<<2, 0>>, <<0, 1>>, <<1, 1>>}
BuildMaps ==
  UNION {{[i \in 1..n |-> [id |-> i, vector |-> f[i]]] : f \in [1..n -> BuildVecs]} :
           n \in 1..MaxBuild}
BuildSearchInputs ==
  {[op |-> "buildSearch", map |-> m, nClusters |-> c, nProbe |-> p, query |-> q, k |-> k] :
     m \in BuildMaps, c \in {1, 2}, p \in {1, 2}, q \in {<<1, 1>>, <<2, 1>>}, k \in {1, 2}}

FnInit ==
  /\ HNSWInit /\ IVFInit /\ IIInit /\ MInit
  /\ fnArgs \in {[op |-> "synthesize", evidence |-> ev] : ev \in SynthesizeInputs}
               \cup {[op |-> "fitPlatt", scores |-> inp.scores, labels |-> inp.labels] :
                       inp \in PlattInputs}
               \cup {[op |-> op, scores |-> inp.scores, alpha |-> inp.alpha] :
                       op \in {"calibrate", "splitConformal", "predictionSet"},
                       inp \in CalibrationInputs}
               \cup {[op |-> "embed", text |-> text, dimensions |-> d] :
                       text \in EmbedTexts, d \in EmbedDims}
               \cup {inp \in {[op |-> "applyPlatt", low |-> low, high |-> high,
                                model |-> model] :
                                 low \in ApplyScores, high \in ApplyScores,
                                 model \in ApplyModels} : inp.low < inp.high}
               \cup {[op |-> "insertSearch", vecs |-> inp.vecs, levels |-> inp.levels,
                      query |-> inp.query] : inp \in InsertInputs}
               \cup {[op |-> "cosineSimilarity", a |-> a, b |-> b] :
                       a \in CosineVectors, b \in CosineVectors}
               \cup BuildSearchInputs
  /\ fnRet = NoRet

\* embed(input, dimensions)
FEmbed ==
  /\ fnArgs.op = "embed"
  /\ fnRet = NoRet
  /\ \E normSq \in embedNormSq(fnArgs.text, fnArgs.dimensions) :
       fnRet' = [op |-> "embed", value |-> embed(fnArgs.text, fnArgs.dimensions),
                 normSq |-> normSq]
  /\ UNCHANGED fnArgs
  /\ UNCHANGED <<hnswVars, ivfVars, iiVars, mVars>>

\* cosineSimilarity(a, b)
FCosineSimilarity ==
  /\ fnArgs.op = "cosineSimilarity"
  /\ fnRet = NoRet
  /\ LET r == cosineSimilarityDouble(fnArgs.a, fnArgs.b)
     IN fnRet' = [op |-> "cosineSimilarity", threw |-> r.threw, nan |-> r.nan,
                  value |-> r.value]
  /\ UNCHANGED fnArgs
  /\ UNCHANGED <<hnswVars, ivfVars, iiVars, mVars>>

\* applyPlatt(score, model), called on two scores with one model
FApplyPlatt ==
  /\ fnArgs.op = "applyPlatt"
  /\ fnRet = NoRet
  /\ fnRet' = [op |-> "applyPlatt",
               low |-> applyPlatt(fnArgs.low, fnArgs.model),
               high |-> applyPlatt(fnArgs.high, fnArgs.model)]
  /\ UNCHANGED fnArgs
  /\ UNCHANGED <<hnswVars, ivfVars, iiVars, mVars>>

\* the inserts of fnArgs on a fresh HNSWIndex, then search(query, k) with k
\* the number of stored nodes
FInsertSearch ==
  /\ fnArgs.op = "insertSearch"
  /\ fnRet = NoRet
  /\ LET S == insertAll(fnArgs.vecs, fnArgs.levels, Len(fnArgs.vecs))
         r == search(S.nodes, S.entryPoint, fnArgs.query, Len(S.nodes))
     IN fnRet' = [op |-> "insertSearch", nodes |-> S.nodes, entryPoint |-> S.entryPoint,
                  failed |-> S.failed, err |-> r.err, res |-> r.res]
  /\ UNCHANGED fnArgs
  /\ UNCHANGED <<hnswVars, ivfVars, iiVars, mVars>>

\* build(map) on a fresh IVFIndex of the given configuration, then
\* search(query, k); exact is what exactSearch(query, k) returns on it
FBuildSearch ==
  /\ fnArgs.op = "buildSearch"
  /\ fnRet = NoRet
  /\ LET m == fnArgs.map
         k == Min(fnArgs.nClusters, Len(m))
     IN \E cs \in kMeans([i \in 1..Len(m) |-> m[i].vector], k) :
          LET cl == assignClusters(m, cs, [i \in 1..k |-> <<>>], Len(m))
              r == ivfProbeWith(m, cs, cl, fnArgs.query, fnArgs.k, fnArgs.nProbe)
          IN fnRet' = [op |-> "buildSearch", centroids |-> cs, clusters |-> cl,
                       err |-> r.err, res |-> r.res,
                       exact |-> ivfExactSearch(m, fnArgs.query, fnArgs.k)]
  /\ UNCHANGED fnArgs
  /\ UNCHANGED <<hnswVars, ivfVars, iiVars, mVars>>

\* fitPlatt(scores, labels)
FFitPlatt ==
  /\ fnArgs.op = "fitPlatt"
  /\ fnRet = NoRet
  /\ \E r \in fitPlatt(fnArgs.scores, fnArgs.labels) :
       fnRet' = [op |-> "fitPlatt", threw |-> r.threw, model |-> r.model]
  /\ UNCHANGED fnArgs
  /\ UNCHANGED <<hnswVars, ivfVars, iiVars, mVars>>

\* synthesize(evidence, context, action)
FSynthesize ==
  /\ fnArgs.op = "synthesize"
  /\ fnRet = NoRet
  /\ fnRet' = [op |-> "synthesize", output |-> synthesize(fnArgs.evidence)]
  /\ UNCHANGED fnArgs
  /\ UNCHANGED <<hnswVars, ivfVars, iiVars, mVars>>

\* calibrate(scores, alpha)
FCalibrate ==
  /\ fnArgs.op = "calibrate"
  /\ fnRet = NoRet
  /\ LET r == calibrate(fnArgs.scores, fnArgs.alpha)
     IN fnRet' = [op |-> "calibrate", threw |-> r.threw, value |-> r.value,
                  scores |-> r.scores]
  /\ UNCHANGED fnArgs
  /\ UNCHANGED <<hnswVars, ivfVars, iiVars, mVars>>

\* splitConformal(calibrationScores, newScore, alpha)
FSplitConformal ==
  /\ fnArgs.op = "splitConformal"
  /\ fnRet = NoRet
  /\ LET r == splitConformal(fnArgs.scores, NewScore, fnArgs.alpha)
     IN fnRet' = [op |-> "splitConformal", threw |-> r.threw, value |-> r.value,
                  scores |-> r.scores]
  /\ UNCHANGED fnArgs
  /\ UNCHANGED <<hnswVars, ivfVars, iiVars, mVars>>

\* predictionSet(scores, calibrationScores, alpha)
FPredictionSet ==
  /\ fnArgs.op = "predictionSet"
  /\ fnRet = NoRet
  /\ LET r == predictionSet(LabelScores, fnArgs.scores, fnArgs.alpha)
     IN fnRet' = [op |-> "predictionSet", threw |-> r.threw, value |-> r.value,
                  scores |-> r.scores]
  /\ UNCHANGED fnArgs
  /\ UNCHANGED <<hnswVars, ivfVars, iiVars, mVars>>

Init == HNSWInit /\ IVFInit /\ IIInit /\ MInit /\ FInit

NextHNSW == HNSWInsert \/ HNSWSearch \/ HNSWStats

NextIVF == IVFAdd \/ IVFBuild \/ IVFBuildWith \/ IVFSearch

NextII == IIAdd \/ IIFilterByAction \/ IIFilterByTags \/ IIFilterByDomain \/ IIFindAll

NextMatcher == MSetIndices \/ MAddSpan \/ MExternalInsert \/ MPredict

Next == NextHNSW \/ NextIVF \/ NextII \/ NextMatcher

SpecHNSW == Init /\ [][NextHNSW]_vars

SpecIVF == Init /\ [][NextIVF]_vars

SpecII == Init /\ [][NextII]_vars

SpecMatcher == Init /\ [][NextMatcher]_vars

NextFn ==
  \/ FSynthesize
  \/ FFitPlatt
  \/ FCalibrate
  \/ FSplitConformal
  \/ FPredictionSet
  \/ FEmbed
  \/ FCosineSimilarity
  \/ FApplyPlatt
  \/ FInsertSearch \/ FBuildSearch

SpecFn == FnInit /\ [][NextFn]_vars

Spec == Init /\ [][Next]_vars

(***************************************************************************)
(* Properties of HNSWIndex                                                 *)
(***************************************************************************)
NodeIds == 1..Len(nodes)

Layers(i) == 0..nodes[i].level

MaxStoredLevel == CHOOSE l \in {nodes[i].level : i \in NodeIds} :
                    \A i \in NodeIds : nodes[i].level <= l

\* v is in u's layer-l connection list
Linked(u, l, v) == \E p \in 1..Len(Conn(nodes[u], l)) : Conn(nodes[u], l)[p] = v

\* Lemma the error handling of insert and search rests on: every node that
\* has an edge has the dimension of the entry point, so a dimension
\* mismatch can only be raised by the first distance computed.
ConnectedSameDim ==
  \A u \in NodeIds : \A l \in Layers(u) : \A v \in NodeIds :
    Linked(u, l, v) =>
      /\ Len(nodes[u].vector) = Len(nodes[entryPoint].vector)
      /\ Len(nodes[v].vector) = Len(nodes[entryPoint].vector)

\* C1: after any sequence of completed inserts (none raised), every edge is
\* bidirectional at its layer: v in u's layer-l list implies u in v's
\* layer-l list, also after a neighbour's list was pruned.
C1_EdgesBidirectional ==
  ~hnswFailed =>
    \A u \in NodeIds : \A l \in Layers(u) : \A v \in NodeIds :
      Linked(u, l, v) => Linked(v, l, u)

\* C2: in every state of a non-empty index the entry point is a stored node
\* whose level is the maximum level over all stored nodes.
C2_EntryPointHasMaxLevel ==
  Len(nodes) > 0 =>
    /\ entryPoint \in NodeIds
    /\ nodes[entryPoint].level = MaxStoredLevel

\* C3: insert of a vector with the dimension of the stored vectors raises
\* no error whatever level is drawn; the only error insert raises is the
\* dimension mismatch.
C3_InsertRaisesOnlyDimensionMismatch ==
  hnswErr # "none" =>
    /\ hnswErr = "DimensionMismatch"
    /\ Len(nodes[Len(nodes)].vector) # Len(nodes[entryPoint].vector)

RetDist(id) == distance(hnswRet.query, nodes[id].vector)

Searched == hnswRet.op = "search" /\ hnswRet.err = "none"

\* C5: search returns the empty list on an empty index; otherwise at most k
\* results with pairwise distinct ids of stored nodes in non-decreasing
\* distance to the query; on a single-node index exactly that node.
C5_SearchResultShape ==
  Searched =>
    LET res == hnswRet.res IN
    /\ Len(nodes) = 0 => res = <<>>
    /\ Len(res) <= hnswRet.k
    /\ \A i \in 1..Len(res) :
         /\ res[i].id \in NodeIds
         /\ res[i].similarity = cosineSimilarity(hnswRet.query, nodes[res[i].id].vector)
    /\ \A i, j \in 1..Len(res) : i < j =>
         /\ res[i].id # res[j].id
         /\ ~RatLess(RetDist(res[j].id), RetDist(res[i].id))
    /\ (Len(nodes) = 1 /\ hnswRet.k >= 1) =>
         (Len(res) = 1 /\ res[1].id = 1)

\* a search on three or more nodes cut to k = 2 results at different distances
C5_Witness ==
  /\ Searched
  /\ Len(nodes) >= 3
  /\ Len(hnswRet.res) = 2
  /\ hnswRet.k = 2
  /\ RatLess(RetDist(hnswRet.res[1].id), RetDist(hnswRet.res[2].id))

\* C6: on an index of n nodes, 2 <= n <= efSearch, search with k >= 1
\* returns first a node at the minimum distance to the query over all
\* inserted nodes (of the query's dimension).
C6_FirstResultIsNearest ==
  (Searched /\ 2 <= Len(nodes) /\ Len(nodes) <= EfSearch /\ hnswRet.k >= 1) =>
    /\ hnswRet.res # <<>>
    /\ \A i \in NodeIds :
         Len(nodes[i].vector) = Len(hnswRet.query) =>
           ~RatLess(RetDist(i), RetDist(hnswRet.res[1].id))

(***************************************************************************)
(* Properties of IVFIndex                                                  *)
(***************************************************************************)
StoredIds == {vectors[i].id : i \in 1..Len(vectors)}

\* the places <<c, p>> of the postings that hold id
Places(id) == {cp \in {<<c, p>> : c \in 1..Len(clusters), p \in 1..MaxIds + 1} :
                 cp[2] <= Len(clusters[cp[1]]) /\ clusters[cp[1]][cp[2]] = id}

PostedIds == UNION {{clusters[c][p] : p \in 1..Len(clusters[c])} : c \in 1..Len(clusters)}

\* C7: whenever built is true the postings partition the stored ids: every
\* id of the vector map is in exactly one posting, no posting holds an id
\* that is not in the vector map, and the posting lengths sum to size().
C7_PostingsPartitionIds ==
  built =>
    /\ \A id \in StoredIds : Cardinality(Places(id)) = 1
    /\ PostedIds \subseteq StoredIds
    /\ SumLen(clusters, Len(clusters)) = Len(vectors)

\* C8: after a build on N >= 1 stored vectors the number of centroids is
\* K = min(nClusters, N) and equals the number of keys of the postings map,
\* also when sampling meets duplicate vectors or a cluster ends up empty.
C8_CentroidCount ==
  (built /\ Len(vectors) >= 1) =>
    /\ Len(centroids) = (IF NClusters < Len(vectors) THEN NClusters ELSE Len(vectors))
    /\ Len(clusters) = Len(centroids)

\* k-means ran (more vectors than clusters) on duplicate vectors and left a
\* posting empty
C8_Witness ==
  /\ built
  /\ Len(vectors) > NClusters
  /\ \E i, j \in 1..Len(vectors) : i # j /\ vectors[i].vector = vectors[j].vector
  /\ \E c \in 1..Len(clusters) : clusters[c] = <<>>

\* the result res of a search for query, k is an exact scan of the stored
\* vectors: the min(k, N) stored ids nearest by cosine distance, in order
IsExactScan(m, query, k, res) ==
  LET Dist(id) == distance(query, MapGet(m, id))
      returned == {res[i].id : i \in 1..Len(res)}
  IN /\ Len(res) = (IF k < Len(m) THEN k ELSE Len(m))
     /\ \A i \in 1..Len(res) :
          /\ MapHas(m, res[i].id)
          /\ res[i].similarity = cosineSimilarity(query, MapGet(m, res[i].id))
     /\ \A i, j \in 1..Len(res) : i < j =>
          /\ res[i].id # res[j].id
          /\ ~RatLess(Dist(res[j].id), Dist(res[i].id))
     /\ \A i \in 1..Len(m) : m[i].id \notin returned =>
          \A r \in returned : ~RatLess(Dist(m[i].id), Dist(r))

\* C9: an add sets built to false, built stays false until a completed
\* build (the step that leaves postings covering every stored id), and
\* every search while built is false is an exact linear scan over all the
\* stored vectors, the newly added ones included.
C9_AddRevertsToExactScan ==
  [][/\ built' => ~IVFAdd
     /\ (~built /\ built') =>
          /\ ivfRet' = NoRet
          /\ Len(vectors') > 0
          /\ PostedIds' = StoredIds'
     /\ (~built /\ ivfRet'.op = "search") =>
          /\ ivfRet'.err = "none"
          /\ IsExactScan(vectors, ivfRet'.query, ivfRet'.k, ivfRet'.res)]_vars

\* a search after build-then-add that returns an id no posting holds
C9_Witness ==
  /\ ivfRet.op = "search"
  /\ ~built
  /\ centroids # <<>>
  /\ Len(vectors) >= 3
  /\ Len(ivfRet.res) = 2
  /\ \E i \in 1..Len(ivfRet.res) : ivfRet.res[i].id \notin PostedIds

\* C10: a build call that finds no vectors to cluster changes no index
\* state: vector map, centroids, postings and built flag stay as they were.
C10_EmptyBuildChangesNothing ==
  [][((IVFBuild \/ IVFBuildWith) /\ Len(vectors') = 0) =>
       UNCHANGED <<vectors, centroids, clusters, built>>]_vars

\* the Euclidean distance of the query to centroid c
CentroidDist(query, c) == euclideanDistance(AsCentroid(query), centroids[c])

\* the sets of nProbe centroid indices that are nearest to the query: no
\* centroid left out is strictly closer than one taken
NearestCentroidSets(query) ==
  {P \in SUBSET (1..Len(centroids)) :
     /\ Cardinality(P) = Min(NProbe, Len(centroids))
     /\ \A c \in P : \A o \in (1..Len(centroids)) \ P :
          ~RatLess(CentroidDist(query, o), CentroidDist(query, c))}

\* the ids on the postings of the centroids of P
PostingsOf(P) == UNION {{clusters[c][p] : p \in 1..Len(clusters[c])} : c \in P}

\* C11: on a built, non-empty index search(q, k) returns at most k ids, all
\* from the postings of the nProbe centroids nearest to q by Euclidean
\* distance, in non-decreasing cosine distance, and no id of those postings
\* that is left out is strictly closer to q than a returned one.
C11_ProbeSearchResult ==
  (ivfRet.op = "search" /\ built /\ Len(vectors) > 0) =>
    /\ ivfRet.err = "none"
    /\ Len(ivfRet.res) <= ivfRet.k
    /\ \E P \in NearestCentroidSets(ivfRet.query) :
         LET Dist(id) == distance(ivfRet.query, MapGet(vectors, id))
             returned == {ivfRet.res[i].id : i \in 1..Len(ivfRet.res)}
         IN /\ returned \subseteq PostingsOf(P)
            /\ \A i, j \in 1..Len(ivfRet.res) : i < j =>
                 ~RatLess(Dist(ivfRet.res[j].id), Dist(ivfRet.res[i].id))
            /\ \A id \in PostingsOf(P) \ returned :
                 \A r \in returned : ~RatLess(Dist(id), Dist(r))

\* a probing search that returned fewer than k ids although a stored vector
\* outside the probed postings is strictly closer to the query
C11_Witness ==
  /\ ivfRet.op = "search"
  /\ built
  /\ Len(centroids) > NProbe
  /\ Len(ivfRet.res) >= 1
  /\ Len(ivfRet.res) < ivfRet.k
  /\ \E i \in 1..Len(vectors) :
       /\ \A j \in 1..Len(ivfRet.res) : ivfRet.res[j].id # vectors[i].id
       /\ RatLess(distance(ivfRet.query, vectors[i].vector),
                  distance(ivfRet.query, MapGet(vectors, ivfRet.res[1].id)))

NullSeed == [null |-> TRUE, ids |-> <<>>]

\* the ids passed to add for <<"action", s>>, for the action values s that
\* are related to the action string: one lowercased string contains the
\* other, or their Levenshtein similarity 1 - d / max(len) exceeds 0.7
FuzzyRelated(s, action) ==
  LET ls == toLowerCase(s)
      la == toLowerCase(action)
      d == levenshteinDistance(la, ls)
      maxLen == IF Len(la) > Len(ls) THEN Len(la) ELSE Len(ls)
  IN \/ includes(ls, la)
     \/ includes(la, ls)
     \/ 10 * (maxLen - d) > 7 * maxLen

\* C12: filterByAction(null, action, fuzzy = true) returns exactly the ids
\* stored under an action value s such that lower(s) contains lower(action),
\* or lower(action) contains lower(s), or the Levenshtein similarity of the
\* two lowercased strings is strictly greater than 0.7.
C12_FuzzyActionMatches ==
  (iiRet.op = "filterByAction" /\ iiRet.fuzzy /\ iiRet.seed.null) =>
    Elems(iiRet.res) =
      UNION {Elems(added[<<"action", s>>]) :
               s \in {v \in ActionValues : FuzzyRelated(v, iiRet.action)}}

\* a fuzzy call that returned the ids of a stored action it matches by edit
\* distance alone and left out the ids of another stored action
C12_Witness ==
  /\ iiRet.op = "filterByAction"
  /\ iiRet.fuzzy
  /\ iiRet.seed.null
  /\ \E s \in ActionValues :
       /\ added[<<"action", s>>] # <<>>
       /\ ~includes(toLowerCase(s), toLowerCase(iiRet.action))
       /\ ~includes(toLowerCase(iiRet.action), toLowerCase(s))
       /\ Elems(added[<<"action", s>>]) \subseteq Elems(iiRet.res)
  /\ \E s \in ActionValues :
       /\ added[<<"action", s>>] # <<>>
       /\ Elems(added[<<"action", s>>]) \cap Elems(iiRet.res) = {}

\* the last filter call repeated with the seed given
FilterWithSeed(seed) ==
  CASE iiRet.op = "filterByAction" ->
         filterByAction(indices, seed, iiRet.action, iiRet.fuzzy)
    [] iiRet.op = "filterByTags" -> filterByTags(indices, seed, iiRet.tags)
    [] iiRet.op = "filterByDomain" -> filterByDomain(indices, seed, iiRet.domain)

IsFilterCall == iiRet.op \in {"filterByAction", "filterByTags", "filterByDomain"}

\* C13: a filter call with a non-null seed returns, as a set, exactly the
\* ids of the same call with a null seed that are members of the seed; an
\* empty seed yields an empty result.
C13_SeedIntersects ==
  (IsFilterCall /\ ~iiRet.seed.null) =>
    /\ Elems(iiRet.res) = Elems(FilterWithSeed(NullSeed)) \cap Elems(iiRet.seed.ids)
    /\ iiRet.seed.ids = <<>> => iiRet.res = <<>>

\* a seeded call that kept some ids of the unseeded result and dropped others
C13_Witness ==
  /\ IsFilterCall
  /\ ~iiRet.seed.null
  /\ iiRet.res # <<>>
  /\ Elems(FilterWithSeed(NullSeed)) \ Elems(iiRet.seed.ids) # {}

\* any two different ids of res occur in list in the order they have in res
KeepsOrderOf(res, list) ==
  \A i, j \in 1..Len(res) : (i < j /\ res[i] # res[j]) =>
    \E p, q \in 1..Len(list) : p < q /\ list[p] = res[i] /\ list[q] = res[j]

\* C14: when a filter intersects its matches with a seed, the returned ids
\* keep the relative order of the shorter operand: the seed when it is
\* shorter than the match list, the match list otherwise.
C14_OrderOfShorterOperand ==
  (IsFilterCall /\ ~iiRet.seed.null) =>
    LET matches == FilterWithSeed(NullSeed)
    IN IF Len(iiRet.seed.ids) < Len(matches)
       THEN KeepsOrderOf(iiRet.res, iiRet.seed.ids)
       ELSE KeepsOrderOf(iiRet.res, matches)

\* C15: find(f, v) is the sequence of ids passed to add for (f, v), in call
\* order and with repeated ids kept, getCount(f, v) is its length, and find
\* of a pair never added is empty.
C15_FindIsAddHistory ==
  \A pr \in Pairs :
    /\ find(indices, pr[1], pr[2]) = added[pr]
    /\ getCount(indices, pr[1], pr[2]) = Len(added[pr])

\* one list holds an id twice, a second list was added to after the first,
\* and a pair of the same field was never added
C15_Witness ==
  /\ \E pr \in Pairs : \E i, j \in 1..Len(added[pr]) : i < j /\ added[pr][i] = added[pr][j]
  /\ Len(indices) >= 2
  /\ \E pr \in Pairs : KeyHas(indices, pr[1]) /\ find(indices, pr[1], pr[2]) = <<>>

NoDuplicates(ids) == \A i, j \in 1..Len(ids) : i # j => ids[i] # ids[j]

Reverse(seq) == [i \in 1..Len(seq) |-> seq[Len(seq) + 1 - i]]

\* C16: findAll(filters) returns without duplicates exactly the ids that
\* occur in find(f, v) for every pair of filters, whatever the order of the
\* pairs; findAll({}) is empty; filterByTags returns the duplicate-free
\* union over its tags, whatever their order.
C16_FindAllIsIntersection ==
  /\ iiRet.op = "findAll" =>
       /\ NoDuplicates(iiRet.res)
       /\ Elems(iiRet.res) =
            {id \in SpanIds : /\ iiRet.filters # <<>>
                              /\ \A n \in 1..Len(iiRet.filters) :
                                   id \in Elems(added[<<iiRet.filters[n].field,
                                                        iiRet.filters[n].value>>])}
       /\ Elems(iiRet.res) = Elems(findAll(indices, Reverse(iiRet.filters)))
       /\ Len(iiRet.filters) = 1 =>
            Elems(iiRet.res) = Elems(find(indices, iiRet.filters[1].field,
                                          iiRet.filters[1].value))
  /\ (iiRet.op = "filterByTags" /\ iiRet.seed.null) =>
       /\ NoDuplicates(iiRet.res)
       /\ Elems(iiRet.res) =
            UNION {Elems(added[<<"tag", iiRet.tags[n]>>]) : n \in 1..Len(iiRet.tags)}
       /\ Elems(iiRet.res) = Elems(filterByTags(indices, NullSeed, Reverse(iiRet.tags)))

\* a findAll over two pairs that returned an id of both lists and left out
\* an id the second list lacks
C16_Witness ==
  /\ iiRet.op = "findAll"
  /\ Len(iiRet.filters) = 2
  /\ iiRet.res # <<>>
  /\ LET first == added[<<iiRet.filters[1].field, iiRet.filters[1].value>>]
     IN Elems(first) \ Elems(iiRet.res) # {}

(***************************************************************************)
(* Properties of TrajectoryMatcher                                         *)
(***************************************************************************)
\* predict returned a prediction
PredictReturned == pred # NoRet /\ pred.res.threw = "none"

\* the plan of the last call: the one given, or the default one
GivenPlan ==
  IF pred.inp.hasPlan
  THEN [topK |-> pred.inp.topK, minQuality |-> pred.inp.minQuality,
        timeRange |-> pred.inp.timeRange]
  ELSE [topK |-> DefaultTopK, minQuality |-> 60, timeRange |-> NoRange]

ConfidenceIs(points) == pred.res.confidence = [lo |-> 100 * points, hi |-> 100 * points]

\* C17: predict with plan.topK < minTopK (the given plan, or the default
\* plan when none is given) returns method low_confidence, confidence 10,
\* trajectories_used 0 and no evidence, and reads no index and not the span
\* store.
C17_ShortCircuitA ==
  (pred # NoRet /\ GivenPlan.topK < MinTopK) =>
    /\ pred.res.threw = "none"
    /\ pred.res.method = "low_confidence"
    /\ ConfidenceIs(10)
    /\ pred.res.trajectories_used = 0
    /\ ~pred.res.hasEvidence
    /\ pred.res.plan = GivenPlan
    /\ pred.res.trace.reads = {}

\* a short plan given to a matcher that holds spans a longer plan finds
C17_Witness ==
  /\ PredictReturned
  /\ pred.inp.hasPlan
  /\ pred.inp.topK < MinTopK
  /\ pred.res.output.kind = "insufficient"
  /\ attached.vector /\ Len(nodes) > 0
  /\ \E i \in 1..Len(spans) : spans[i].did = pred.inp.action

\* the stored action values related to the action of a predict call
RelatedTo ==
  [action \in {inp.action : inp \in PredictInputs} \ {NoText} |->
     {v \in ActionValues : FuzzyRelated(v, action)}]

\* the candidates of the last predict that pass every filter in force
Survivors ==
  {id \in Elems(pred.res.trace.prefilter) :
     /\ (attached.inverted /\ pred.inp.action # NoText) =>
          \E v \in RelatedTo[pred.inp.action] : id \in Elems(added[<<"action", v>>])
     /\ (attached.temporal /\ GivenPlan.timeRange.has) =>
          \E i \in 1..Len(temporal) :
            /\ temporal[i].id = id
            /\ GivenPlan.timeRange.start <= temporal[i].when
            /\ temporal[i].when <= GivenPlan.timeRange.end
     /\ (attached.quality /\ GivenPlan.minQuality # 0) =>
          \E i \in 1..Len(quality) :
            quality[i].id = id /\ quality[i].score >= GivenPlan.minQuality}

\* C18: when topK >= minTopK and no candidate is left after the vector
\* search and the action, temporal and quality filters (also when no span
\* was ever added), predict returns method low_confidence with confidence 5
\* and trajectories_used 0.
C18_ShortCircuitB ==
  (PredictReturned /\ GivenPlan.topK >= MinTopK /\ Survivors = {}) =>
    /\ pred.res.method = "low_confidence"
    /\ ConfidenceIs(5)
    /\ pred.res.trajectories_used = 0

\* the filters removed every candidate the search had found
C18_Witness ==
  /\ PredictReturned
  /\ GivenPlan.topK >= MinTopK
  /\ pred.res.trace.prefilter # <<>>
  /\ Survivors = {}
  /\ pred.res.output.kind = "no_match"

\* the score of a stored span against the query of the last predict
ScoreOf(id) ==
  cosineSimilarity(embedOf[contextToText(pred.inp.env, pred.inp.action)],
                   embedOf[spanToText(GetSpan(spans, id))])

\* the candidate has a stored span that scores at least minScore = 0.3
YieldsEvidence(id) ==
  HasSpan(spans, id) /\ ~RatLess(ScoreOf(id), [num |-> 9, den |-> 100])

\* the first topK surviving candidates of the last predict
FirstCandidates == Slice(pred.res.trace.candidates, GivenPlan.topK)

\* C19: when candidates survive the filters but none of the first topK
\* yields an evidence item (its span is missing from the store, or its score
\* is below minScore), predict returns method low_confidence with confidence
\* 15 and an empty evidence list.
C19_ShortCircuitC ==
  (/\ PredictReturned
   /\ GivenPlan.topK >= MinTopK
   /\ pred.res.trace.candidates # <<>>
   /\ \A i \in 1..Len(FirstCandidates) : ~YieldsEvidence(FirstCandidates[i])) =>
    /\ pred.res.method = "low_confidence"
    /\ ConfidenceIs(15)
    /\ pred.res.hasEvidence
    /\ pred.res.evidence = <<>>

\* a candidate without a stored span and a candidate scoring below minScore
C19_Witness ==
  /\ PredictReturned
  /\ pred.res.output.kind = "no_evidence"
  /\ \E i \in 1..Len(FirstCandidates) : ~HasSpan(spans, FirstCandidates[i])
  /\ \E i \in 1..Len(FirstCandidates) :
       /\ HasSpan(spans, FirstCandidates[i])
       /\ RatLess(ScoreOf(FirstCandidates[i]), [num |-> 9, den |-> 100])

\* the ids of the first topK surviving candidates that yield evidence
EvidenceIds ==
  SelectSeq(FirstCandidates, LAMBDA id : YieldsEvidence(id))

\* C20: every prediction predict returns has method trajectory_matching or
\* low_confidence; the method is trajectory_matching exactly when the
\* evidence list is non-empty and the confidence is at least minConfidence;
\* with non-empty evidence and a confidence below minConfidence the
\* prediction is low_confidence and carries the whole evidence list and the
\* plan.
C20_MethodOfPrediction ==
  PredictReturned =>
    /\ pred.res.method \in {"trajectory_matching", "low_confidence"}
    /\ (pred.res.method = "trajectory_matching") =>
         (pred.res.evidence # <<>> /\ pred.res.confidence.hi >= 100 * MinConfidence)
    /\ (pred.res.evidence # <<>> /\ pred.res.confidence.lo >= 100 * MinConfidence) =>
         pred.res.method = "trajectory_matching"
    /\ (pred.res.evidence # <<>> /\ pred.res.confidence.hi < 100 * MinConfidence) =>
         /\ pred.res.method = "low_confidence"
         /\ pred.res.hasEvidence
         /\ Ids(pred.res.evidence) = EvidenceIds
         /\ pred.res.plan = GivenPlan

\* evidence of two spans whose confidence stays below minConfidence
C20_Witness ==
  /\ PredictReturned
  /\ pred.res.method = "low_confidence"
  /\ Len(pred.res.evidence) >= 2
  /\ pred.res.confidence.hi < 100 * MinConfidence
  /\ pred.res.output.kind = "low"

\* C21: the evidence of a prediction holds exactly the ids among the first
\* topK surviving candidates that have a stored span scoring at least
\* minScore against the query, in candidate order and each with that score;
\* a candidate without a stored span is skipped and the call still returns;
\* there are at most topK evidence items.
C21_EvidenceOfFirstTopK ==
  (PredictReturned /\ pred.res.hasEvidence) =>
    /\ Ids(pred.res.evidence) = EvidenceIds
    /\ \A i \in 1..Len(pred.res.evidence) :
         pred.res.evidence[i].score = ScoreOf(pred.res.evidence[i].id)
    /\ Len(pred.res.evidence) <= GivenPlan.topK

\* more surviving candidates than topK: one of the first topK has no stored
\* span, one past the first topK has a span that scores at least minScore
C21_Witness ==
  /\ PredictReturned
  /\ pred.res.evidence # <<>>
  /\ Len(pred.res.trace.candidates) > GivenPlan.topK
  /\ \E i \in 1..Len(FirstCandidates) : ~HasSpan(spans, FirstCandidates[i])
  /\ \E i \in (GivenPlan.topK + 1)..Len(pred.res.trace.candidates) :
       YieldsEvidence(pred.res.trace.candidates[i])

\* C22: the evidence list of every prediction predict returns is ordered by
\* score, highest first.
C22_EvidenceSortedByScore ==
  PredictReturned =>
    \A i, j \in 1..Len(pred.res.evidence) :
      i < j => ~RatLess(pred.res.evidence[i].score, pred.res.evidence[j].score)

\* C24: with an attached vector index that holds an entry, the candidates
\* before the filters are the ids vectorIndex.search(q, 3 * topK) returns, at
\* most 3 * topK of them; without a vector index, or with an empty one, they
\* are the ids of all spans of the span store.
C24_PrefilterCandidates ==
  (PredictReturned /\ GivenPlan.topK >= MinTopK) =>
    IF attached.vector /\ Len(nodes) > 0
    THEN /\ pred.res.trace.prefilter =
              Ids(search(nodes, entryPoint,
                         embedOf[contextToText(pred.inp.env, pred.inp.action)],
                         3 * GivenPlan.topK).res)
         /\ Len(pred.res.trace.prefilter) <= 3 * GivenPlan.topK
    ELSE pred.res.trace.prefilter = [i \in 1..Len(spans) |-> spans[i].id]

\* the vector index returned an id the span store does not hold
C24_Witness ==
  /\ PredictReturned
  /\ GivenPlan.topK >= MinTopK
  /\ attached.vector
  /\ Len(spans) > 0
  /\ \E i \in 1..Len(pred.res.trace.prefilter) :
       ~HasSpan(spans, pred.res.trace.prefilter[i])

\* the evidence list of the synthesize call and its order by score: item i
\* comes before item j when it scores higher, or the same and stands first
SynEvidence == fnArgs.evidence

SynBefore(i, j) ==
  \/ RatLess(SynEvidence[j].score, SynEvidence[i].score)
  \/ (~RatLess(SynEvidence[i].score, SynEvidence[j].score) /\ i < j)

SynRank(i) == Cardinality({j \in 1..Len(SynEvidence) : SynBefore(j, i)}) + 1

SynTop == CHOOSE i \in 1..Len(SynEvidence) : SynRank(i) = 1

SynTopFive == {i \in 1..Len(SynEvidence) : SynRank(i) <= 5}

SynCount(content) == Cardinality({i \in SynTopFive : SynEvidence[i].content = content})

SynFirstSeen(content) ==
  MinOf({SynRank(i) : i \in {j \in SynTopFive : SynEvidence[j].content = content}})

SynModes ==
  {c \in {SynEvidence[i].content : i \in SynTopFive} :
     \A d \in {SynEvidence[i].content : i \in SynTopFive} : SynCount(d) <= SynCount(c)}

SynReturned == fnArgs.op = "synthesize" /\ fnRet.op = "synthesize"

C26_AddedSpanVisible ==
  (PredictReturned /\ GivenPlan.topK >= MinTopK /\ 3 * GivenPlan.topK >= Len(spans)) =>
    \A id \in completed :
      \E i \in 1..Len(pred.res.trace.prefilter) : pred.res.trace.prefilter[i] = id

\* the scores of the evidence of the last predict, in hundredths, summed
\* after rounding each down, and after rounding each up
EvidenceScoreSumLo ==
  SumSeq([i \in 1..Len(pred.res.evidence) |-> ScoreLo(pred.res.evidence[i].score)],
         Len(pred.res.evidence))

EvidenceScoreSumHi ==
  SumSeq([i \in 1..Len(pred.res.evidence) |-> ScoreHi(pred.res.evidence[i].score)],
         Len(pred.res.evidence))

\* C27: the confidence of every prediction predict returns lies in
\* [0, 100]; it is 10 when plan.topK < minTopK, 5 when no candidate survives
\* the filters, 15 when candidates survive but none yields evidence, and
\* otherwise 100 * (0.6 * average score + 0.2 * min(n / 5, 1) + 0.2 * f) for
\* n evidence items, with the variance factor f in (0, 1] and f = 1 when all
\* scores are equal (here in hundredths of a point, one hundredth of
\* rounding each way).
C27_ConfidenceRange ==
  PredictReturned =>
    LET n == Len(pred.res.evidence)
        lo == pred.res.confidence.lo
        hi == pred.res.confidence.hi
        count == 400 * (IF n < 5 THEN n ELSE 5)
    IN /\ 0 <= lo /\ lo <= hi /\ hi <= 10000
       /\ (GivenPlan.topK < MinTopK) => ConfidenceIs(10)
       /\ (GivenPlan.topK >= MinTopK /\ pred.res.trace.candidates = <<>>) => ConfidenceIs(5)
       /\ (GivenPlan.topK >= MinTopK /\ pred.res.trace.candidates # <<>> /\ n = 0) =>
            ConfidenceIs(15)
       /\ (n > 0) =>
            /\ n * (lo + 2) > 60 * EvidenceScoreSumLo + n * count
            /\ n * (hi - 2002) < 60 * EvidenceScoreSumHi + n * count
            /\ (\A i \in 1..n : pred.res.evidence[i].score = pred.res.evidence[1].score) =>
                 n * (lo + 2) > 60 * EvidenceScoreSumLo + n * (count + 2000)

\* a prediction from two evidence items of different scores, and so with a
\* variance factor below 1
C27_Witness ==
  /\ PredictReturned
  /\ Len(pred.res.evidence) = 2
  /\ RatLess(pred.res.evidence[1].score, pred.res.evidence[2].score)
  /\ pred.res.confidence.lo > 1500
  /\ pred.res.confidence.hi < 10000

\* C28: addSpan(span) stores the span, unchanged, under its id; an attached
\* vector index gets (id, embed(spanText)); an attached inverted filter gets
\* (id, "action", span.did) and, when the span has an environment,
\* (id, "domain", environment); attached temporal and quality collaborators
\* get (id, timestamp) and (id, quality) of a span that carries them.  (It
\* fails when the insert into the vector index raises: the span is stored
\* and no other collaborator is told.)
C28_AddSpanIndexes ==
  [][(Len(spans') = Len(spans) + 1) =>
       LET span == spans'[Len(spans')]
       IN /\ spans' = Append(spans, span)
          /\ [who |-> span.who, did |-> span.did, this |-> span.this,
              if_ok |-> span.if_ok, if_not |-> span.if_not, env |-> span.env,
              when |-> span.when, quality |-> span.quality] \in SpanInputs
          /\ attached.vector =>
               /\ Len(nodes') = Len(nodes) + 1
               /\ nodes'[Len(nodes')].id = span.id
               /\ nodes'[Len(nodes')].vector = embedOf[spanToText(span)]
          /\ attached.inverted =>
               /\ span.id \in Elems(find(indices', "action", span.did))
               /\ (span.env # NoText) =>
                    span.id \in Elems(find(indices', "domain", span.env))
          /\ (attached.temporal /\ span.when # 0) =>
               temporal' = Append(temporal, [id |-> span.id, when |-> span.when])
          /\ (attached.quality /\ span.quality # NoQuality) =>
               quality' = Append(quality, [id |-> span.id, score |-> span.quality])]_vars

FitReturned == fnArgs.op = "fitPlatt" /\ fnRet.op = "fitPlatt"

\* the labels of the fitPlatt call that are at least, above, and below 0.5
LabelsAtLeastHalf == {i \in 1..Len(fnArgs.labels) : fnArgs.labels[i] >= 5}

LabelsAboveHalf == {i \in 1..Len(fnArgs.labels) : fnArgs.labels[i] > 5}

LabelsBelowHalf == {i \in 1..Len(fnArgs.labels) : fnArgs.labels[i] < 5}

ConformalReturned ==
  fnArgs.op \in {"calibrate", "splitConformal", "predictionSet"} /\ fnRet.op = fnArgs.op

\* the least integer that is at least (n + 1) * (1 - alpha), less one, kept
\* within 0..n-1, for the scores and alpha of the call
QuantilePlace ==
  LET n == Len(fnArgs.scores)
      target == CHOOSE m \in 0..(n + 1) :
                  /\ m * fnArgs.alpha.den >= (n + 1) * (fnArgs.alpha.den - fnArgs.alpha.num)
                  /\ (m - 1) * fnArgs.alpha.den < (n + 1) * (fnArgs.alpha.den - fnArgs.alpha.num)
  IN IF target - 1 > n - 1 THEN n - 1 ELSE IF target - 1 < 0 THEN 0 ELSE target - 1

ThresholdOfCall ==
  CHOOSE t \in {fnArgs.scores[i] : i \in 1..Len(fnArgs.scores)} :
    /\ Cardinality({i \in 1..Len(fnArgs.scores) : fnArgs.scores[i] < t}) <= QuantilePlace
    /\ Cardinality({i \in 1..Len(fnArgs.scores) : fnArgs.scores[i] <= t}) > QuantilePlace

\* C31: predictionSet returns exactly the labels whose score is at most
\* calibrate(calibScores, alpha), each once, in the iteration order of the
\* label map; a label whose score equals the threshold is included.
C31_PredictionSetLabels ==
  (fnArgs.op = "predictionSet" /\ fnRet.op = "predictionSet" /\ fnArgs.scores # <<>>) =>
    LET kept == {i \in 1..Len(LabelScores) : LabelScores[i].score <= ThresholdOfCall}
    IN /\ fnRet.threw = "none"
       /\ Len(fnRet.value) = Cardinality(kept)
       /\ \A i \in kept : \E p \in 1..Len(fnRet.value) : fnRet.value[p] = LabelScores[i].label
       /\ \A p, q \in 1..Len(fnRet.value) :
            p < q => \E i, j \in kept : /\ i < j
                                         /\ LabelScores[i].label = fnRet.value[p]
                                         /\ LabelScores[j].label = fnRet.value[q]

\* a threshold that one label equals, one lies below and one lies above,
\* the kept labels not being adjacent in the map
C31_Witness ==
  /\ fnArgs.op = "predictionSet" /\ fnRet.op = "predictionSet"
  /\ fnArgs.scores # <<>>
  /\ fnRet.value = <<"a", "c">>
  /\ \E i \in 1..Len(LabelScores) : LabelScores[i].score = ThresholdOfCall
  /\ \E i \in 1..Len(LabelScores) : LabelScores[i].score > ThresholdOfCall

EmbedReturned == fnArgs.op = "embed" /\ fnRet.op = "embed"

\* no three consecutive word characters: no token longer than 2 characters
NoLongToken(text) ==
  \A i \in 1..Len(text) - 2 :
    ~(IsWordChar(text[i]) /\ IsWordChar(text[i + 1]) /\ IsWordChar(text[i + 2]))

AllZero(vector) == \A i \in 1..Len(vector) : vector[i] = 0

\* C32 (as stated): embed(input, D) returns exactly D components with unit
\* L2 norm for every input, strings without a token longer than 2
\* characters included.
C32_EmbedUnitNorm ==
  EmbedReturned =>
    /\ Len(fnRet.value) = fnArgs.dimensions
    /\ fnRet.normSq.num = fnRet.normSq.den

\* C32 (amended): embed(input, D) returns exactly D components; the vector
\* has unit L2 norm whenever its accumulated features are not all zero, and
\* is the all-zero vector for an input without a token longer than 2
\* characters.
C32_EmbedUnitOrZero ==
  EmbedReturned =>
    /\ Len(fnRet.value) = fnArgs.dimensions
    /\ ~AllZero(fnRet.value) => fnRet.normSq.num = fnRet.normSq.den
    /\ NoLongToken(fnArgs.text) => AllZero(fnRet.value) /\ fnRet.normSq.num = 0

\* a string of two-character tokens embedded to the zero vector
C32_Witness ==
  /\ EmbedReturned
  /\ fnArgs.text # <<>>
  /\ NoLongToken(fnArgs.text)
  /\ fnArgs.dimensions = EmbeddingDim
  /\ AllZero(fnRet.value)

\* two tokens whose signed features cancel in every component
C32_CancelWitness ==
  /\ EmbedReturned
  /\ ~NoLongToken(fnArgs.text)
  /\ AllZero(fnRet.value)
  /\ fnRet.normSq.num = fnRet.normSq.den

CosineReturned == fnArgs.op = "cosineSimilarity" /\ fnRet.op = "cosineSimilarity"

\* every component of the vector is 0
ZeroNorm(a) == \A i \in 1..Len(a) : a[i] = Fin(0)

\* C33: cosineSimilarity(u, v) fails with a dimension-mismatch error when the
\* vectors differ in length, returns 0 when either vector has zero norm,
\* and is symmetric in its arguments.
C33_CosineRule ==
  CosineReturned =>
    /\ (fnRet.threw # "none") = (Len(fnArgs.a) # Len(fnArgs.b))
    /\ (Len(fnArgs.a) = Len(fnArgs.b) /\ (ZeroNorm(fnArgs.a) \/ ZeroNorm(fnArgs.b))) =>
         ~fnRet.nan /\ fnRet.value.num = 0
    /\ cosineSimilarityDouble(fnArgs.b, fnArgs.a)
         = [threw |-> fnRet.threw, nan |-> fnRet.nan, value |-> fnRet.value]

\* the same rule on vectors whose squared norms are finite doubles
C33_CosineRuleFinite ==
  (CosineReturned /\ ~HasHuge(fnArgs.a) /\ ~HasHuge(fnArgs.b)) => C33_CosineRule

ApplyReturned == fnArgs.op = "applyPlatt" /\ fnRet.op = "applyPlatt"

\* C34 (as stated): applyPlatt lies strictly between 0 and 1 for every score
\* and model, and is strictly monotonic in the score whenever a # 0,
\* decreasing for a > 0 and increasing for a < 0.
C34_ApplyPlattStrict ==
  ApplyReturned =>
    /\ ~fnRet.low.zero /\ ~fnRet.low.one /\ ~fnRet.high.zero /\ ~fnRet.high.one
    /\ fnArgs.model.a > 0 => fnRet.low.rank > fnRet.high.rank
    /\ fnArgs.model.a < 0 => fnRet.low.rank < fnRet.high.rank

\* C34 (amended): applyPlatt lies in [0, 1], strictly inside while
\* -36 <= a * s + b <= 709, and is monotonic in the score whenever a # 0:
\* never increasing for a > 0, never decreasing for a < 0.
C34_ApplyPlattMonotonic ==
  ApplyReturned =>
    LET Inside(score) ==
          /\ 0 - ExpUnderflow < fnArgs.model.a * score + fnArgs.model.b
          /\ fnArgs.model.a * score + fnArgs.model.b < ExpOverflow
        Open(p) == ~p.zero /\ ~p.one
    IN /\ Inside(fnArgs.low) => Open(fnRet.low)
       /\ Inside(fnArgs.high) => Open(fnRet.high)
       /\ fnArgs.model.a > 0 => fnRet.low.rank >= fnRet.high.rank
       /\ fnArgs.model.a < 0 => fnRet.low.rank <= fnRet.high.rank

\* the initial model at two scores past the underflow: both results are 1
C34_Witness ==
  /\ ApplyReturned
  /\ fnArgs.model = [a |-> 0 - 1, b |-> 0]
  /\ fnRet.low.one /\ fnRet.high.one

\* a result of exactly 0 next to one strictly inside
C34_ZeroWitness ==
  /\ ApplyReturned
  /\ fnArgs.model.a > 0
  /\ fnRet.high.zero /\ ~fnRet.low.zero /\ ~fnRet.low.one

\* C35: stats() on a non-empty index reports nodes = the number of stored
\* nodes and layers = (the maximum level over all stored nodes) + 1, after
\* any sequence of insert calls.
C35_StatsLayers ==
  (hnswRet.op = "stats" /\ Len(nodes) > 0) =>
    /\ hnswRet.nodes = Cardinality(NodeIds)
    /\ hnswRet.layers = MaxStoredLevel + 1

\* the same on an index none of whose inserts has raised
C35_StatsLayersNoError ==
  (hnswRet.op = "stats" /\ Len(nodes) > 0 /\ ~hnswFailed) =>
    /\ hnswRet.nodes = Cardinality(NodeIds)
    /\ hnswRet.layers = MaxStoredLevel + 1

InsertSearchReturned == fnArgs.op = "insertSearch" /\ fnRet.op = "insertSearch"

\* the ids reachable from the ids of R by layer-0 connection lists of N, R
\* included, after at most n more steps
RECURSIVE ReachFrom(_, _, _)
ReachFrom(N, R, n) ==
  IF n = 0 THEN R
  ELSE ReachFrom(N, R \cup UNION {{Conn(N[u], 0)[p] : p \in 1..Len(Conn(N[u], 0))} :
                                     u \in R}, n - 1)

ReturnedIds == {fnRet.res[i].id : i \in 1..Len(fnRet.res)}

AllFound ==
  /\ ReachFrom(fnRet.nodes, {fnRet.entryPoint}, Len(fnRet.nodes)) = 1..Len(fnRet.nodes)
  /\ fnRet.err = "none"
  /\ ReturnedIds = 1..Len(fnRet.nodes)

\* C36 (as stated): after any sequence of completed insert calls every stored
\* node is reachable from the entry point by layer-0 connection lists, and
\* search(q, k) with k at least the node count returns every inserted id.
C36_AllReachable ==
  (InsertSearchReturned /\ ~fnRet.failed) => AllFound

\* C36 (amended): the same while the index holds at most 2M + 1 nodes, so
\* that no layer-0 list has exceeded its cap 2M.
C36_AllReachableUnpruned ==
  (InsertSearchReturned /\ ~fnRet.failed /\ Len(fnRet.nodes) <= 2 * M + 1) => AllFound

\* 2M + 1 nodes above EfSearch, one of them with a full layer-0 list, all
\* of them returned
C36_Witness ==
  /\ InsertSearchReturned
  /\ ~fnRet.failed
  /\ Len(fnRet.nodes) = 2 * M + 1
  /\ Len(fnRet.nodes) > EfSearch
  /\ \E u \in 1..Len(fnRet.nodes) : Len(Conn(fnRet.nodes[u], 0)) = 2 * M
  /\ AllFound

\* a node that every neighbour it chose has pruned away
C36_OrphanWitness ==
  /\ InsertSearchReturned
  /\ ~fnRet.failed
  /\ \E u \in 1..Len(fnRet.nodes) :
       /\ Conn(fnRet.nodes[u], 0) # <<>>
       /\ u \notin ReachFrom(fnRet.nodes, {fnRet.entryPoint}, Len(fnRet.nodes))

\* C37 (as stated): in every prediction returned by predict, trajectories_used
\* equals the number of items of the returned evidence list, 0 when the
\* prediction carries no evidence or an empty one.
C37_UsedIsEvidenceCount ==
  PredictReturned => pred.res.trajectories_used = Len(pred.res.evidence)

\* C37 (amended): trajectories_used equals the number of items of the
\* returned evidence list, except in the return with an empty evidence list
\* (confidence 15), where it is the number of candidates that survived the
\* filters, at least one; it is 0 when the prediction carries no evidence.
C37_UsedIsEvidenceOrCandidateCount ==
  PredictReturned =>
    IF pred.res.hasEvidence /\ pred.res.evidence = <<>>
    THEN /\ ConfidenceIs(15)
         /\ pred.res.trajectories_used = Len(pred.res.trace.candidates)
         /\ pred.res.trajectories_used >= 1
    ELSE /\ pred.res.trajectories_used = Len(pred.res.evidence)
         /\ ~pred.res.hasEvidence => pred.res.trajectories_used = 0

\* an empty evidence list returned with two surviving candidates counted
C37_Witness ==
  /\ PredictReturned
  /\ pred.res.hasEvidence
  /\ pred.res.evidence = <<>>
  /\ pred.res.trajectories_used = 2

\* a returned evidence list of two items, fewer than the candidates
C37_EvidenceWitness ==
  /\ PredictReturned
  /\ Len(pred.res.evidence) = 2
  /\ pred.res.trajectories_used = 2
  /\ Len(pred.res.trace.candidates) > 2

\* the similarity of a stored vector to the query of the last predict
QuerySimilarity(id) ==
  cosineSimilarity(embedOf[contextToText(pred.inp.env, pred.inp.action)], nodes[id].vector)

C38_RankingKeptWithoutActionFilter ==
  (/\ PredictReturned
   /\ GivenPlan.topK >= MinTopK
   /\ attached.vector /\ attached.inverted /\ Len(nodes) > 0
   /\ pred.inp.action = NoText) =>
    /\ Elems(pred.res.trace.candidates) = Survivors
    /\ \A i, j \in 1..Len(pred.res.trace.candidates) :
         i < j => ~RatLess(QuerySimilarity(pred.res.trace.candidates[i]),
                           QuerySimilarity(pred.res.trace.candidates[j]))

\* the ids of the evidence the last predict returned
ReturnedEvidence ==
  {pred.res.evidence[i].id : i \in 1..Len(pred.res.evidence)}

\* C39 (as stated): addSpan is all-or-nothing: a span whose addSpan raised is
\* nowhere, neither in the span store nor in an attached index, and no later
\* predict returns it as evidence.
C39_AddSpanAllOrNothing ==
  /\ \A i \in 1..Len(spans) : spans[i].id \in completed
  /\ \A i \in 1..Len(nodes) : HasSpan(spans, nodes[i].id) => nodes[i].id \in completed
  /\ PredictReturned => ReturnedEvidence \subseteq completed

\* the spans of the store whose addSpan raised
Aborted == {i \in 1..Len(spans) : spans[i].id \notin completed}

\* C39 (as amended): a span whose addSpan raised out of the vector index
\* insert is in the span store and its node in the vector index, and no
\* posting of the inverted index, no entry of the temporal index and no
\* entry of the quality index names it.
C39_AbortedSpanHalfInserted ==
  \A i \in Aborted :
    /\ attached.vector
    /\ \E n \in 1..Len(nodes) : nodes[n].id = spans[i].id
    /\ \A pr \in Pairs : /\ spans[i].id \notin Elems(find(indices, pr[1], pr[2]))
                        /\ spans[i].id \notin Elems(added[pr])
    /\ \A t \in 1..Len(temporal) : temporal[t].id # spans[i].id
    /\ \A q \in 1..Len(quality) : quality[q].id # spans[i].id

\* the last addSpan raised, with the four indices attached, for a span with
\* an action, an environment, a timestamp and a quality score
C39_Witness ==
  /\ mErr # "none"
  /\ attached.inverted /\ attached.temporal /\ attached.quality
  /\ \E i \in Aborted :
       /\ i = Len(spans)
       /\ spans[i].did # NoText /\ spans[i].env # NoText
       /\ spans[i].when # 0 /\ spans[i].quality # NoQuality

\* the last addSpan raised 'Vector dimensions must match'
C39_DimensionWitness ==
  mErr = "DimensionMismatch" /\ Len(spans) \in Aborted

\* an IVFIndex was built and searched with every cluster probed
BuildSearchReturned ==
  /\ fnRet # NoRet /\ fnRet.op = "buildSearch"
  /\ fnArgs.nProbe >= Len(fnRet.centroids)

\* two similarities carried as fractions are the same number
SameValue(x, y) == x.num * y.den = y.num * x.den

\* every entry of the first result list is in the second: the id, with the
\* same similarity (hence the same distance)
EntriesAmong(res, other) ==
  \A i \in 1..Len(res) :
    \E j \in 1..Len(other) :
      other[j].id = res[i].id /\ SameValue(other[j].similarity, res[i].similarity)

\* C40 (as stated): on a built IVFIndex whose nProbe is at least the number
\* of centroids, search(q, k) returns the same set of ids with the same
\* distances as the exact linear scan over all stored vectors.
C40_ProbeAllIsExact ==
  BuildSearchReturned =>
    /\ fnRet.err = "none"
    /\ EntriesAmong(fnRet.res, fnRet.exact)
    /\ EntriesAmong(fnRet.exact, fnRet.res)

\* the vectors of the map at the same distance from the query as the last
\* result of the exact scan
TiedAtCut ==
  {fnArgs.map[i].id : i \in
     {i \in 1..Len(fnArgs.map) :
        SameValue(cosineSimilarity(fnArgs.query, fnArgs.map[i].vector),
                  fnRet.exact[Len(fnRet.exact)].similarity)}}

\* C40 (as amended): such a search returns as many results as the exact
\* scan, with the same distances place by place, each the distance of the
\* vector it names, and the same ids up to the choice among the vectors
\* tied with the last result of the scan.
C40_ProbeAllSameDistances ==
  BuildSearchReturned =>
    /\ fnRet.err = "none"
    /\ Len(fnRet.res) = Len(fnRet.exact)
    /\ \A i \in 1..Len(fnRet.res) :
         /\ SameValue(fnRet.res[i].similarity, fnRet.exact[i].similarity)
         /\ SameValue(fnRet.res[i].similarity,
                      cosineSimilarity(fnArgs.query, MapGet(fnArgs.map, fnRet.res[i].id)))
         /\ \/ \E j \in 1..Len(fnRet.exact) : fnRet.exact[j].id = fnRet.res[i].id
            \/ fnRet.res[i].id \in TiedAtCut
    /\ Cardinality({fnRet.res[i].id : i \in 1..Len(fnRet.res)}) = Len(fnRet.res)

\* two clusters, both probed, and a result cut below the number of vectors
C40_Witness ==
  /\ BuildSearchReturned
  /\ Len(fnRet.centroids) = 2
  /\ \A c \in 1..2 : fnRet.clusters[c] # <<>>
  /\ Len(fnRet.res) < Len(fnArgs.map)
  /\ fnRet.res = fnRet.exact

\* both clusters probed, and the search returns another id than the scan
C40_TieWitness ==
  /\ BuildSearchReturned
  /\ Len(fnRet.centroids) = 2
  /\ \E i \in 1..Len(fnRet.res) : fnRet.res[i].id # fnRet.exact[i].id

====
